---------------------------- MODULE Spec2Model ----------------------------
(***************************************************************************)
(* A model of meetsum's summary pipeline: the Processor of                 *)
(* internal/summary/processor.go (transcript locator, path metadata        *)
(* extractor, AI output sanitizer, writer/archiver) and the run function   *)
(* runMeetSum of the root command.                                         *)
(*                                                                         *)
(* Text is modelled as a sequence of characters (one-character strings).   *)
(* A raw AI output is a sequence of text chunks: the literals the          *)
(* sanitizer searches for are sequences of chunks, every other chunk is a  *)
(* piece of text that contains none of them.                               *)
(***************************************************************************)
EXTENDS Integers, Sequences, FiniteSets, TLC

VARIABLES
    meetingDir,      \* Processor.meetingDir
    transcriptPath,  \* Processor.transcriptPath
    cfgTranscript,   \* config.Files.Transcript
    fs,              \* the file system: path of a regular file -> its content
    aiOutput,        \* the standard output of the AI command
    ret,             \* the last call and what it returned
    pc,              \* which specification runs, and where it is
    denied,          \* the system calls the operating system refuses
    aiStderr,        \* the standard error of the AI command
    aiErr,           \* the error cmd.Run returns for the AI command
    traceMode,       \* config.Features.TraceMode
    logger,          \* Processor.logger: "nil" or "set"
    logRecords,      \* the records written through the logger
    cwd,             \* the working directory of the process
    summary,         \* runMeetSum's summary
    generated,       \* what GenerateSummary returned to its caller
    model,           \* the SpinnerModel of RunWithSpinner
    calls,           \* the Processor operations runMeetSum has invoked
    userName,        \* Processor.userName
    prompt,          \* the standard input handed to the AI command
    outcome          \* how runMeetSum ended

\* the state of a run of the root command
runVars == <<aiStderr, aiErr, traceMode, logger, logRecords, cwd, summary,
             generated, model, calls, userName, prompt, outcome>>

vars == <<meetingDir, transcriptPath, cfgTranscript, fs, aiOutput, ret, pc,
          denied, runVars>>

\* ------------------------------------------------------------------------
\* Bounds of the model
\* ------------------------------------------------------------------------

\* the longest meeting directory path drawn, in segments
MaxSegs == 3

\* ------------------------------------------------------------------------
\* Go's strings package, on sequences
\* ------------------------------------------------------------------------

Range(s) == {s[i] : i \in 1..Len(s)}

Min(S) == CHOOSE x \in S : \A y \in S : x <= y

HasPrefix(s, p) == Len(p) <= Len(s) /\ SubSeq(s, 1, Len(p)) = p

HasSuffix(s, p) == Len(p) <= Len(s) /\ SubSeq(s, Len(s) - Len(p) + 1, Len(s)) = p

RECURSIVE IndexFrom(_, _, _)
IndexFrom(s, p, i) ==
    IF i + Len(p) > Len(s) THEN -1
    ELSE IF SubSeq(s, i + 1, i + Len(p)) = p THEN i
    ELSE IndexFrom(s, p, i + 1)

\* strings.Index: the 0-based offset of the first occurrence of p in s, or -1
Index(s, p) == IndexFrom(s, p, 0)

Contains(s, p) == Index(s, p) # -1

\* strings.Split for a non-empty separator: the pieces between the
\* non-overlapping occurrences of sep, found left to right
RECURSIVE Split(_, _)
Split(s, sep) ==
    LET i == Index(s, sep)
    IN  IF i = -1 THEN <<s>>
        ELSE <<SubSeq(s, 1, i)>> \o Split(SubSeq(s, i + Len(sep) + 1, Len(s)), sep)

\* strings.Join
RECURSIVE Join(_, _)
Join(elems, sep) ==
    IF elems = <<>> THEN <<>>
    ELSE IF Len(elems) = 1 THEN elems[1]
    ELSE elems[1] \o sep \o Join(Tail(elems), sep)

LowerLetters ==
    <<"a","b","c","d","e","f","g","h","i","j","k","l","m",
      "n","o","p","q","r","s","t","u","v","w","x","y","z">>

UpperLetters ==
    <<"A","B","C","D","E","F","G","H","I","J","K","L","M",
      "N","O","P","Q","R","S","T","U","V","W","X","Y","Z">>

\* strings.ToUpper on ASCII text
ToUpper(s) ==
    [i \in 1..Len(s) |->
        IF \E k \in 1..Len(LowerLetters) : LowerLetters[k] = s[i]
        THEN UpperLetters[CHOOSE k \in 1..Len(LowerLetters) : LowerLetters[k] = s[i]]
        ELSE s[i]]

\* ------------------------------------------------------------------------
\* Go's path/filepath package (Unix), on character sequences
\* ------------------------------------------------------------------------

Slash == <<"/">>

Dot == <<".">>

DotDot == <<".", ".">>

\* the element stack of filepath.Clean: "." and empty elements are dropped,
\* ".." removes the element before it (at the root it is dropped, in a
\* relative path with nothing to remove it is kept)
RECURSIVE CleanElems(_, _, _)
CleanElems(elems, rooted, out) ==
    IF elems = <<>> THEN out
    ELSE LET e == Head(elems) rest == Tail(elems)
         IN  IF e = <<>> \/ e = Dot THEN CleanElems(rest, rooted, out)
             ELSE IF e = DotDot
                  THEN IF out # <<>> /\ out[Len(out)] # DotDot
                       THEN CleanElems(rest, rooted, SubSeq(out, 1, Len(out) - 1))
                       ELSE IF rooted THEN CleanElems(rest, rooted, out)
                       ELSE CleanElems(rest, rooted, Append(out, e))
                  ELSE CleanElems(rest, rooted, Append(out, e))

\* filepath.Clean
Clean(path) ==
    IF path = <<>> THEN Dot
    ELSE LET rooted == path[1] = "/"
             Lazy(body) == IF rooted THEN Slash \o body
                           ELSE IF body = <<>> THEN Dot ELSE body
         IN  Lazy(Join(CleanElems(Split(path, Slash), rooted, <<>>), Slash))

\* filepath.Join of two elements: empty elements are ignored, the result is
\* cleaned, and the join of nothing is the empty string
PathJoin(a, b) ==
    IF a = <<>> /\ b = <<>> THEN <<>>
    ELSE IF a = <<>> THEN Clean(b)
    ELSE IF b = <<>> THEN Clean(a)
    ELSE Clean(a \o Slash \o b)

\* the 1-based position of the last "/" of path, 0 when there is none
LastSlash(path) ==
    LET at == {i \in 1..Len(path) : path[i] = "/"}
    IN  IF at = {} THEN 0 ELSE CHOOSE i \in at : \A j \in at : j <= i

\* filepath.Dir: everything up to the last separator, cleaned
Dir(path) == Clean(SubSeq(path, 1, LastSlash(path)))

RECURSIVE StripTrailingSlashes(_)
StripTrailingSlashes(path) ==
    IF path # <<>> /\ path[Len(path)] = "/"
    THEN StripTrailingSlashes(SubSeq(path, 1, Len(path) - 1))
    ELSE path

\* filepath.Base: the last element, trailing separators removed first
Base(path) ==
    IF path = <<>> THEN Dot
    ELSE LET Last(p) == SubSeq(p, LastSlash(p) + 1, Len(p))
             OrSlash(b) == IF b = <<>> THEN Slash ELSE b
         IN  OrSlash(Last(StripTrailingSlashes(path)))

\* ------------------------------------------------------------------------
\* Go's time.Parse under the layout "2006-01-02"
\* ------------------------------------------------------------------------

DigitChars == <<"0","1","2","3","4","5","6","7","8","9">>

IsDigit(c) == \E k \in 1..10 : DigitChars[k] = c

DigitValue(c) == (CHOOSE k \in 1..10 : DigitChars[k] = c) - 1

\* the number a run of digits spells
RECURSIVE Atoi(_)
Atoi(s) ==
    IF s = <<>> THEN 0
    ELSE 10 * Atoi(SubSeq(s, 1, Len(s) - 1)) + DigitValue(s[Len(s)])

AllDigits(s) == \A i \in 1..Len(s) : IsDigit(s[i])

\* time.isLeap
IsLeap(year) == year % 4 = 0 /\ (year % 100 # 0 \/ year % 400 = 0)

\* time.daysIn
DaysIn(month, year) ==
    IF month = 2 THEN (IF IsLeap(year) THEN 29 ELSE 28)
    ELSE IF month \in {4, 6, 9, 11} THEN 30 ELSE 31

\* a parse that accepts every text of the layout's shape, whatever month
\* and day it spells
TimeParseOK_ShapeOnly(s) ==
    /\ Len(s) = 10
    /\ AllDigits(SubSeq(s, 1, 4))
    /\ s[5] = "-"
    /\ AllDigits(SubSeq(s, 6, 7))
    /\ s[8] = "-"
    /\ AllDigits(SubSeq(s, 9, 10))

\* TRUE iff time.Parse("2006-01-02", s) returns no error: a four-digit
\* year, "-", a two-digit month 01..12, "-", a two-digit day that exists in
\* that month of that year, and no text after it
TimeParseOK(s) ==
    /\ Len(s) = 10
    /\ AllDigits(SubSeq(s, 1, 4))
    /\ s[5] = "-"
    /\ AllDigits(SubSeq(s, 6, 7))
    /\ s[8] = "-"
    /\ AllDigits(SubSeq(s, 9, 10))
    /\ LET year  == Atoi(SubSeq(s, 1, 4))
           month == Atoi(SubSeq(s, 6, 7))
           day   == Atoi(SubSeq(s, 9, 10))
       IN  /\ month >= 1 /\ month <= 12
           /\ day >= 1 /\ day <= DaysIn(month, year)

\* ------------------------------------------------------------------------
\* Path Metadata Extractor
\* ------------------------------------------------------------------------

Customers == <<"C","u","s","t","o","m","e","r","s">>

SlashCustomersSlash == Slash \o Customers \o Slash

\* the first part of parts that ExtractDateFromPath accepts, "" when none
RECURSIVE FirstDatePart(_)
FirstDatePart(parts) ==
    IF parts = <<>> THEN <<>>
    ELSE LET part == Head(parts)
         IN  IF Len(part) = 10 /\ part[5] = "-" /\ part[8] = "-" /\ TimeParseOK(part)
             THEN part
             ELSE FirstDatePart(Tail(parts))

\* Processor.ExtractDateFromPath
ExtractDateFromPath(dir) == FirstDatePart(Split(dir, Slash))

\* an extractor that never looks for the Customers marker
ExtractCustomerName_ParentOnly(dir) ==
    [proper |-> Base(Dir(dir)), upper |-> ToUpper(Base(Dir(dir))), err |-> "nil"]

\* Processor.ExtractCustomerName: <<customerNameProper, customerNameUpper, err>>
ExtractCustomerName(dir) ==
    LET FromPath(parts) ==
            IF Contains(dir, SlashCustomersSlash) /\ Len(parts) > 1
            THEN Split(parts[2], Slash)[1]
            ELSE <<>>
        Fallback(customerNameRaw) ==
            IF customerNameRaw = <<>> THEN Base(Dir(dir)) ELSE customerNameRaw
        Named(customerNameRaw) ==
            [proper |-> customerNameRaw, upper |-> ToUpper(customerNameRaw), err |-> "nil"]
    IN  Named(Fallback(FromPath(Split(dir, SlashCustomersSlash))))


\* ------------------------------------------------------------------------
\* Go's filepath.Match and filepath.Glob
\* ------------------------------------------------------------------------

\* the characters of the model's paths, in byte order
ByteOrder ==
    <<"*", "-", ".", "/", "0","1","2","3","4","5","6","7","8","9", "?",
      "A","B","C","D","E","F","G","H","I","J","K","L","M",
      "N","O","P","Q","R","S","T","U","V","W","X","Y","Z", "[", "]", "^", "_",
      "a","b","c","d","e","f","g","h","i","j","k","l","m",
      "n","o","p","q","r","s","t","u","v","w","x","y","z">>

Rank(c) == CHOOSE k \in 1..Len(ByteOrder) : ByteOrder[k] = c

\* the ranges of a character class, read from the text after "[" or "[^":
\* each is one character or lo-hi, the class ends at the first "]" that
\* follows a range, and a class that is not closed, or has "-" or "]"
\* where a character is expected, is malformed
RECURSIVE ClassRanges(_, _)
ClassRanges(chunk, ranges) ==
    IF chunk = <<>> THEN [ok |-> FALSE, ranges |-> ranges, rest |-> <<>>]
    ELSE IF chunk[1] = "]" /\ ranges # {}
    THEN [ok |-> TRUE, ranges |-> ranges, rest |-> Tail(chunk)]
    ELSE IF chunk[1] = "-" \/ chunk[1] = "]"
    THEN [ok |-> FALSE, ranges |-> ranges, rest |-> <<>>]
    ELSE IF Len(chunk) >= 2 /\ chunk[2] = "-"
    THEN IF Len(chunk) < 3 \/ chunk[3] = "-" \/ chunk[3] = "]"
         THEN [ok |-> FALSE, ranges |-> ranges, rest |-> <<>>]
         ELSE ClassRanges(SubSeq(chunk, 4, Len(chunk)),
                          ranges \cup {<<Rank(chunk[1]), Rank(chunk[3])>>})
    ELSE ClassRanges(Tail(chunk), ranges \cup {<<Rank(chunk[1]), Rank(chunk[1])>>})

\* the character class that opens at the head of pattern
ClassAt(pattern) ==
    LET negated == Len(pattern) >= 2 /\ pattern[2] = "^"
        parsed  == ClassRanges(SubSeq(pattern, IF negated THEN 3 ELSE 2, Len(pattern)), {})
    IN  [ok |-> parsed.ok, negated |-> negated, ranges |-> parsed.ranges, rest |-> parsed.rest]

\* filepath.ErrBadPattern: some character class of pattern is malformed
RECURSIVE BadPattern(_)
BadPattern(pattern) ==
    IF pattern = <<>> THEN FALSE
    ELSE IF pattern[1] = "["
    THEN LET class == ClassAt(pattern)
         IN  IF class.ok THEN BadPattern(class.rest) ELSE TRUE
    ELSE BadPattern(Tail(pattern))

\* filepath.Match of a well-formed pattern against one path element: "*"
\* is any run of characters, "?" any one character, "[...]" one character
\* of the class, anything else itself
RECURSIVE Match(_, _)
Match(pattern, name) ==
    IF pattern = <<>> THEN name = <<>>
    ELSE IF pattern[1] = "*"
    THEN \E k \in 0..Len(name) : Match(Tail(pattern), SubSeq(name, k + 1, Len(name)))
    ELSE IF name = <<>> THEN FALSE
    ELSE IF pattern[1] = "?" THEN Match(Tail(pattern), Tail(name))
    ELSE IF pattern[1] = "["
    THEN LET class == ClassAt(pattern)
             in    == \E r \in class.ranges : r[1] <= Rank(name[1]) /\ Rank(name[1]) <= r[2]
         IN  (in # class.negated) /\ Match(class.rest, Tail(name))
    ELSE pattern[1] = name[1] /\ Match(Tail(pattern), Tail(name))

\* every element of path matches the element of pattern at its place
ElementsMatch(pattern, path) ==
    LET pe == Split(pattern, Slash)
        ne == Split(path, Slash)
    IN  Len(pe) = Len(ne) /\ \A i \in 1..Len(pe) : Match(pe[i], ne[i])

\* sort.Strings order, on text
RECURSIVE TextLess(_, _)
TextLess(a, b) ==
    IF b = <<>> THEN FALSE
    ELSE IF a = <<>> THEN TRUE
    ELSE IF a[1] # b[1] THEN Rank(a[1]) < Rank(b[1])
    ELSE TextLess(Tail(a), Tail(b))

\* Glob lists a directory's names sorted, directory by directory: the
\* order of two paths is the order of the first element they differ in
RECURSIVE ElementsLess(_, _)
ElementsLess(a, b) ==
    IF b = <<>> THEN FALSE
    ELSE IF a = <<>> THEN TRUE
    ELSE IF a[1] # b[1] THEN TextLess(a[1], b[1])
    ELSE ElementsLess(Tail(a), Tail(b))

RECURSIVE SortPaths(_)
SortPaths(S) ==
    IF S = {} THEN <<>>
    ELSE LET first == CHOOSE x \in S :
                 \A y \in S \ {x} : ElementsLess(Split(x, Slash), Split(y, Slash))
         IN  <<first>> \o SortPaths(S \ {first})

\* filepath.Glob over the files of disk: ErrBadPattern for a malformed
\* pattern, otherwise the matching paths in sorted order
Glob(pattern, disk) ==
    IF BadPattern(pattern)
    THEN [matches |-> <<>>, err |-> "syntax error in pattern"]
    ELSE [matches |-> SortPaths({f \in DOMAIN disk : ElementsMatch(pattern, f)}),
          err |-> "nil"]

\* os.Stat(path) returns no error
StatOK(path, disk) == path \in DOMAIN disk

\* ------------------------------------------------------------------------
\* Configuration (config.Config)
\* ------------------------------------------------------------------------

TranscriptTxt == <<"t","r","a","n","s","c","r","i","p","t",".","t","x","t">>

AutomationDir == <<"/","a","u","t","o">>

InstructionsFile == <<"M","e","e","t","i","n","g","-","s","u","m","m","a","r","y","-","l","l","m","-","i","n","s","t","r","u","c","t","i","o","n","s",".","m","d">>

\* Config.GetInstructionsPath
GetInstructionsPath == PathJoin(AutomationDir, InstructionsFile)

\* Config.GetTranscriptPath
GetTranscriptPath(dir, transcriptName) == PathJoin(dir, transcriptName)

\* ------------------------------------------------------------------------
\* Transcript Locator and Archiver
\* ------------------------------------------------------------------------

NilErr == [msg |-> "nil"]

StarTranscriptTxt == <<"*","-","t","r","a","n","s","c","r","i","p","t",".","t","x","t">>

DashTranscriptTxt == <<"-","t","r","a","n","s","c","r","i","p","t",".","t","x","t">>

\* the file name pattern the not-found message spells out for dated files
DatedPatternText == <<"Y","Y","Y","Y","-","M","M","-","D","D","-","t","r","a","n","s","c","r","i","p","t",".","t","x","t">>

\* the regular expression ^\d{4}-\d{2}-\d{2}-transcript\.txt$
DatePatternMatch(filename) ==
    /\ Len(filename) = 25
    /\ AllDigits(SubSeq(filename, 1, 4))
    /\ filename[5] = "-"
    /\ AllDigits(SubSeq(filename, 6, 7))
    /\ filename[8] = "-"
    /\ AllDigits(SubSeq(filename, 9, 10))
    /\ SubSeq(filename, 11, 25) = DashTranscriptTxt

\* the error FindTranscriptFile returns when both lookups find nothing:
\* its text holds the meeting directory and the two literal file names
NotFoundErr(dir) ==
    [msg   |-> "no transcript file found in %s (looked for transcript.txt and YYYY-MM-DD-transcript.txt)",
     dir   |-> dir,
     names |-> {<<"t","r","a","n","s","c","r","i","p","t",".","t","x","t">>, DatedPatternText}]

GlobErr(cause) == [msg |-> "failed to search for transcript files: %w", cause |-> cause]

\* the first match that FindTranscriptFile's filter keeps, "" when none
RECURSIVE FirstDatedMatch(_)
FirstDatedMatch(matches) ==
    IF matches = <<>> THEN <<>>
    ELSE LET filename == Base(Head(matches))
         IN  IF DatePatternMatch(filename) /\ TimeParseOK(SubSeq(filename, 1, 10))
             THEN Head(matches)
             ELSE FirstDatedMatch(Tail(matches))

\* a locator that looks for a dated transcript before the standard name
FindTranscriptFile_DatedFirst(dir, transcriptName, disk) ==
    LET Default(defaultPath) ==
            IF StatOK(defaultPath, disk) THEN [path |-> defaultPath, err |-> NilErr]
            ELSE [path |-> <<>>, err |-> NotFoundErr(dir)]
        Dated(dated) ==
            IF dated # <<>> THEN [path |-> dated, err |-> NilErr]
            ELSE Default(GetTranscriptPath(dir, transcriptName))
        Globbed(found) ==
            IF found.err # "nil" THEN [path |-> <<>>, err |-> GlobErr(found.err)]
            ELSE Dated(FirstDatedMatch(found.matches))
    IN  Globbed(Glob(PathJoin(dir, StarTranscriptTxt), disk))

\* Processor.FindTranscriptFile: [path, err]
FindTranscriptFile(dir, transcriptName, disk) ==
    LET Dated(dated) ==
            IF dated # <<>> THEN [path |-> dated, err |-> NilErr]
            ELSE [path |-> <<>>, err |-> NotFoundErr(dir)]
        Globbed(found) ==
            IF found.err # "nil" THEN [path |-> <<>>, err |-> GlobErr(found.err)]
            ELSE Dated(FirstDatedMatch(found.matches))
        Default(defaultPath) ==
            IF StatOK(defaultPath, disk) THEN [path |-> defaultPath, err |-> NilErr]
            ELSE Globbed(Glob(PathJoin(dir, StarTranscriptTxt), disk))
    IN  Default(GetTranscriptPath(dir, transcriptName))

InstructionsNotFoundErr ==
    [msg |-> "instructions file not found at %s", path |-> GetInstructionsPath]

\* Processor.ValidateRequiredFiles: the transcript path the Processor holds
\* afterwards, and the error returned
ValidateRequiredFiles(dir, transcriptName, held, disk) ==
    LET Found(found) ==
            IF found.err # NilErr THEN [transcriptPath |-> held, err |-> found.err]
            ELSE IF ~StatOK(GetInstructionsPath, disk)
            THEN [transcriptPath |-> found.path, err |-> InstructionsNotFoundErr]
            ELSE [transcriptPath |-> found.path, err |-> NilErr]
    IN  Found(FindTranscriptFile(dir, transcriptName, disk))

\* os.Rename: the disk afterwards, and whether it failed
Rename(oldPath, newPath, disk, refused) ==
    IF oldPath \notin DOMAIN disk \/ "Rename" \in refused
    THEN [ok |-> FALSE, disk |-> disk]
    ELSE [ok   |-> TRUE,
          disk |-> [f \in (DOMAIN disk \ {oldPath}) \cup {newPath} |->
                       IF f = newPath THEN disk[oldPath] ELSE disk[f]]]

RenameConflictErr(newFilename) ==
    [msg |-> "cannot rename transcript: %s already exists", name |-> newFilename]

RenameFailedErr == [msg |-> "failed to rename transcript: %w"]

\* RenameTranscriptFile with the transcript path the Processor holds left
\* at the old name after the rename
RenameTranscriptFile_StalePath(dir, held, disk, refused) ==
    LET skip        == [name |-> <<>>, err |-> NilErr, transcriptPath |-> held, disk |-> disk]
        filename    == Base(held)
        date        == ExtractDateFromPath(dir)
        newFilename == date \o DashTranscriptTxt
        newPath     == PathJoin(dir, newFilename)
        moved       == Rename(held, newPath, disk, refused)
    IN  IF held = <<>> THEN skip
        ELSE IF DatePatternMatch(filename) THEN skip
        ELSE IF date = <<>> THEN skip
        ELSE IF StatOK(newPath, disk)
        THEN [skip EXCEPT !.err = RenameConflictErr(newFilename)]
        ELSE IF ~moved.ok THEN [skip EXCEPT !.err = RenameFailedErr]
        ELSE [name |-> newFilename, err |-> NilErr,
              transcriptPath |-> held, disk |-> moved.disk]

\* RenameTranscriptFile without the test for an already dated file name
RenameTranscriptFile_RenamesDated(dir, held, disk, refused) ==
    LET skip        == [name |-> <<>>, err |-> NilErr, transcriptPath |-> held, disk |-> disk]
        date        == ExtractDateFromPath(dir)
        newFilename == date \o DashTranscriptTxt
        newPath     == PathJoin(dir, newFilename)
        moved       == Rename(held, newPath, disk, refused)
    IN  IF held = <<>> THEN skip
        ELSE IF date = <<>> THEN skip
        ELSE IF StatOK(newPath, disk)
        THEN [skip EXCEPT !.err = RenameConflictErr(newFilename)]
        ELSE IF ~moved.ok THEN [skip EXCEPT !.err = RenameFailedErr]
        ELSE [name |-> newFilename, err |-> NilErr,
              transcriptPath |-> newPath, disk |-> moved.disk]

\* RenameTranscriptFile without the test for an existing destination
RenameTranscriptFile_Overwrites(dir, held, disk, refused) ==
    LET skip        == [name |-> <<>>, err |-> NilErr, transcriptPath |-> held, disk |-> disk]
        filename    == Base(held)
        date        == ExtractDateFromPath(dir)
        newFilename == date \o DashTranscriptTxt
        newPath     == PathJoin(dir, newFilename)
        moved       == Rename(held, newPath, disk, refused)
    IN  IF held = <<>> THEN skip
        ELSE IF DatePatternMatch(filename) THEN skip
        ELSE IF date = <<>> THEN skip
        ELSE IF ~moved.ok THEN [skip EXCEPT !.err = RenameFailedErr]
        ELSE [name |-> newFilename, err |-> NilErr,
              transcriptPath |-> newPath, disk |-> moved.disk]

\* Processor.RenameTranscriptFile: the name returned, the error, the
\* transcript path the Processor holds afterwards, and the disk afterwards
RenameTranscriptFile(dir, held, disk, refused) ==
    LET skip        == [name |-> <<>>, err |-> NilErr, transcriptPath |-> held, disk |-> disk]
        filename    == Base(held)
        date        == ExtractDateFromPath(dir)
        newFilename == date \o DashTranscriptTxt
        newPath     == PathJoin(dir, newFilename)
        moved       == Rename(held, newPath, disk, refused)
    IN  IF held = <<>> THEN skip
        ELSE IF DatePatternMatch(filename) THEN skip
        ELSE IF date = <<>> THEN skip
        ELSE IF StatOK(newPath, disk)
        THEN [skip EXCEPT !.err = RenameConflictErr(newFilename)]
        ELSE IF ~moved.ok THEN [skip EXCEPT !.err = RenameFailedErr]
        ELSE [name |-> newFilename, err |-> NilErr,
              transcriptPath |-> newPath, disk |-> moved.disk]

\* ------------------------------------------------------------------------
\* Output Sanitizer
\* ------------------------------------------------------------------------

NL == <<"\n">>

Space == <<" ">>

\* the chunk "FENCE" stands for the three backquotes of a code fence
Fence == <<"FENCE">>

\* the opening fence of a markdown block: three backquotes and "markdown"
FenceMarkdown == <<"FENCE", "markdown">>

SummaryMarker == <<"_SUMMARY_">>

EmphasisMarker == <<"*_">>

IsSpaceChunk(c) == c \in {"\n", " ", "\t", "\r"}

\* strings.TrimSpace
RECURSIVE TrimLeft(_)
TrimLeft(s) == IF s # <<>> /\ IsSpaceChunk(s[1]) THEN TrimLeft(Tail(s)) ELSE s

RECURSIVE TrimRight(_)
TrimRight(s) ==
    IF s # <<>> /\ IsSpaceChunk(s[Len(s)]) THEN TrimRight(SubSeq(s, 1, Len(s) - 1)) ELSE s

TrimSpace(s) == TrimRight(TrimLeft(s))

\* strings.ReplaceAll(s, old, "")
RECURSIVE RemoveAll(_, _)
RemoveAll(s, old) ==
    LET i == Index(s, old)
    IN  IF i = -1 THEN s
        ELSE SubSeq(s, 1, i) \o RemoveAll(SubSeq(s, i + Len(old) + 1, Len(s)), old)

\* the substrings the line filter of cleanAIOutput looks for
NoiseSubstrings ==
    << <<"Loaded cached credentials">>,
       <<"Error executing tool">>,
       <<"Tool \"write_file\" not found">>,
       <<"I was unable to create">>,
       <<"Here is the content">>,
       <<"You can save it as">> >>

\* errorPatterns, the texts the fallback pass of cleanAIOutput looks for
ErrorPatterns ==
    << <<"Loaded cached credentials", ".">>,
       <<"Error executing tool", " ", "write_file:">>,
       <<"Tool \"write_file\" not found", " ", "in registry.">>,
       <<"I was unable to create", " ", "the file directly.">>,
       <<"Here is the content", " ", "for the meeting summary.">>,
       <<"You can save it as">> >>

\* a line filter that lets every line through
IsNoiseLine_Never(line) == FALSE

\* the line is skipped as an error message or AI chatter
IsNoiseLine(line) ==
    \E k \in 1..Len(NoiseSubstrings) : Contains(line, NoiseSubstrings[k])

\* the line loop of cleanAIOutput, from the lines left to read and the
\* loop's variables to the lines collected
RECURSIVE CollectLines(_, _, _, _)
CollectLines(lines, markdownLines, inMarkdownBlock, foundMarkdownStart) ==
    IF lines = <<>> THEN markdownLines
    ELSE LET line == Head(lines)
             inBlock == IF inMarkdownBlock THEN Append(markdownLines, line)
                        ELSE markdownLines
         IN  IF IsNoiseLine(line)
             THEN CollectLines(Tail(lines), markdownLines, inMarkdownBlock, foundMarkdownStart)
             ELSE IF HasPrefix(line, FenceMarkdown)
             THEN CollectLines(Tail(lines), markdownLines, TRUE, TRUE)
             ELSE IF HasPrefix(line, Fence) /\ inMarkdownBlock
             THEN markdownLines
             ELSE IF /\ ~inMarkdownBlock
                     /\ ~foundMarkdownStart
                     /\ (Contains(line, SummaryMarker) \/ HasPrefix(line, EmphasisMarker))
             THEN CollectLines(Tail(lines), Append(inBlock, line), inMarkdownBlock, TRUE)
             ELSE IF foundMarkdownStart /\ ~inMarkdownBlock
             THEN CollectLines(Tail(lines), Append(inBlock, line), inMarkdownBlock,
                               foundMarkdownStart)
             ELSE CollectLines(Tail(lines), inBlock, inMarkdownBlock, foundMarkdownStart)

\* one step of the fallback loop: when the pattern occurs and a newline
\* follows it, everything up to and including that newline is cut
CutAfterPattern(cleanedOutput, pattern) ==
    LET idx      == Index(cleanedOutput, pattern)
        nextLine == Index(SubSeq(cleanedOutput, idx + 1, Len(cleanedOutput)), NL)
    IN  IF idx # -1 /\ nextLine # -1
        THEN SubSeq(cleanedOutput, idx + nextLine + 2, Len(cleanedOutput))
        ELSE cleanedOutput

RECURSIVE CutAfterPatterns(_, _)
CutAfterPatterns(cleanedOutput, patterns) ==
    IF patterns = <<>> THEN cleanedOutput
    ELSE CutAfterPatterns(CutAfterPattern(cleanedOutput, Head(patterns)), Tail(patterns))

\* the fallback pass of cleanAIOutput
FallbackClean(output) ==
    TrimSpace(RemoveAll(RemoveAll(CutAfterPatterns(output, ErrorPatterns), FenceMarkdown),
                        Fence))

\* a cleanAIOutput that returns the collected lines as they are joined
cleanAIOutput_Untrimmed(output) ==
    LET markdownLines == CollectLines(Split(output, NL), <<>>, FALSE, FALSE)
    IN  IF Len(markdownLines) > 0 THEN Join(markdownLines, NL)
        ELSE FallbackClean(output)

\* Processor.cleanAIOutput
cleanAIOutput(output) ==
    LET markdownLines == CollectLines(Split(output, NL), <<>>, FALSE, FALSE)
    IN  IF Len(markdownLines) > 0 THEN TrimSpace(Join(markdownLines, NL))
        ELSE FallbackClean(output)

\* ------------------------------------------------------------------------
\* Inputs: meeting directory paths
\* ------------------------------------------------------------------------

Hyphen == <<"-">>

Digits2(n) == <<DigitChars[((n \div 10) % 10) + 1], DigitChars[(n % 10) + 1]>>

Digits4(n) == Digits2(n \div 100) \o Digits2(n % 100)

\* the text YYYY-MM-DD of three numbers
DateString(y, m, d) == Digits4(y) \o Hyphen \o Digits2(m) \o Hyphen \o Digits2(d)

Acme == <<"A","c","m","e">>

Meeting1 == <<"m","e","e","t","i","n","g","1">>

\* the directory names paths are built from: the marker directory, two
\* ordinary names, dates that exist (one of them a leap day), dates that do
\* not, a day-first date and a date-shaped name that holds no number
PathSegments ==
    { Customers, Acme, Meeting1,
      DateString(2024, 1, 15), DateString(2024, 2, 29),
      DateString(2023, 2, 29), DateString(2024, 13, 1),
      Digits2(1) \o Hyphen \o Digits2(15) \o Hyphen \o Digits4(2024),
      Digits4(2024) \o Hyphen \o <<"0","1">> \o Hyphen \o <<"1","x">> }

SegLists(S, n) == UNION {[1..k -> S] : k \in 0..n}

\* an absolute path of the given segments, ending in "/" when trailing
AbsPath(segs, trailing) ==
    Slash \o Join(segs, Slash) \o (IF trailing /\ segs # <<>> THEN Slash ELSE <<>>)

PathInputs ==
    {AbsPath(segs, t) : segs \in SegLists(PathSegments, MaxSegs), t \in BOOLEAN}

\* ------------------------------------------------------------------------
\* The state
\* ------------------------------------------------------------------------

EmptyFS == [p \in {} |-> "none"]

NoRet == [op |-> "none"]

OriginalDir == <<"/","h","o","m","e">>

NotReturned == [state |-> "none"]

\* a SpinnerModel as NewSpinnerModel builds it: no result, no error
NewSpinnerModel ==
    [done |-> FALSE, quit |-> FALSE,
     result |-> [set |-> FALSE, value |-> <<>>], err |-> NilErr]

Running == [kind |-> "running"]

\* no run of the root command is under way
RunIdle ==
    /\ aiStderr = <<>>
    /\ aiErr = NilErr
    /\ traceMode = FALSE
    /\ logger = "nil"
    /\ logRecords = <<>>
    /\ cwd = OriginalDir
    /\ summary = <<>>
    /\ generated = NotReturned
    /\ model = NewSpinnerModel
    /\ calls = <<>>
    /\ userName = <<>>
    /\ prompt = <<>>
    /\ outcome = Running

\* ------------------------------------------------------------------------
\* SpecPath: the Path Metadata Extractor applied to a meeting directory
\* ------------------------------------------------------------------------

InitPath ==
    /\ meetingDir \in PathInputs
    /\ transcriptPath = <<>>
    /\ cfgTranscript = TranscriptTxt
    /\ fs = EmptyFS
    /\ aiOutput = <<>>
    /\ ret = NoRet
    /\ denied = {}
    /\ RunIdle
    /\ pc = "path"

CallExtractDateFromPath ==
    /\ pc = "path"
    /\ ret' = [op |-> "ExtractDateFromPath", date |-> ExtractDateFromPath(meetingDir)]
    /\ UNCHANGED <<meetingDir, transcriptPath, cfgTranscript, fs, aiOutput, pc, denied, runVars>>

CallExtractCustomerName ==
    /\ pc = "path"
    /\ ret' = [op |-> "ExtractCustomerName", name |-> ExtractCustomerName(meetingDir)]
    /\ UNCHANGED <<meetingDir, transcriptPath, cfgTranscript, fs, aiOutput, pc, denied, runVars>>

NextPath == CallExtractDateFromPath \/ CallExtractCustomerName

SpecPath == InitPath /\ [][NextPath]_vars

\* ------------------------------------------------------------------------
\* Claims about the Path Metadata Extractor
\* ------------------------------------------------------------------------

MonthLengths == <<31, 28, 31, 30, 31, 30, 31, 31, 30, 31, 30, 31>>

\* seg spells a day of the calendar as YYYY-MM-DD
CalendarValid(seg) ==
    /\ Len(seg) = 10
    /\ \A i \in {1, 2, 3, 4, 6, 7, 9, 10} : IsDigit(seg[i])
    /\ LET y == Atoi(SubSeq(seg, 1, 4))
           m == Atoi(SubSeq(seg, 6, 7))
           d == Atoi(SubSeq(seg, 9, 10))
           leapDay == m = 2 /\ d = 29 /\ (y % 400 = 0 \/ (y % 4 = 0 /\ y % 100 # 0))
       IN  m \in 1..12 /\ d >= 1 /\ (d <= MonthLengths[m] \/ leapDay)

\* seg is 10 characters with "-" at offsets 4 and 7 and is a calendar date
QualifiesAsDate(seg) ==
    Len(seg) = 10 /\ seg[5] = "-" /\ seg[8] = "-" /\ CalendarValid(seg)

\* C9: ExtractDateFromPath returns, unchanged, the first "/"-separated
\* segment of the meeting directory that is 10 characters long, has "-" at
\* offsets 4 and 7 and is a calendar-valid date; a date-shaped segment that
\* is no calendar date is passed over, and with no qualifying segment the
\* result is the empty string.
C9_PathDateExtraction ==
    ret.op = "ExtractDateFromPath" =>
        LET segs == Split(meetingDir, Slash)
            qual == {i \in 1..Len(segs) : QualifiesAsDate(segs[i])}
        IN  IF qual = {} THEN ret.date = <<>> ELSE ret.date = segs[Min(qual)]

\* C9 witness: a path whose first date-shaped segment is no calendar date
\* and is followed by one that is, which is the one returned
C9_Witness ==
    /\ ret.op = "ExtractDateFromPath"
    /\ LET segs == Split(meetingDir, Slash)
       IN  \E i, j \in 1..Len(segs) :
               /\ i < j
               /\ segs[i] = DateString(2024, 13, 1)
               /\ segs[j] = DateString(2024, 2, 29)
               /\ ret.date = segs[j]

\* the segments of dir equal to Customers with a "/" on both sides
CustomersAt(dir) ==
    LET segs == Split(dir, Slash)
    IN  {i \in 2..(Len(segs) - 1) : segs[i] = Customers}

DirectoryNames(dir) ==
    LET Named(seg) == seg # <<>>
    IN  SelectSeq(Split(dir, Slash), Named)

\* the base name of the directory one level above dir, "/" when that is
\* the root
ParentName(dir) ==
    LET names == DirectoryNames(dir)
    IN  IF Len(names) >= 2 THEN names[Len(names) - 1] ELSE Slash

NoCustomersSegment(dir) == Customers \notin Range(Split(dir, Slash))

C11_NoTrailingSlash ==
    (/\ ret.op = "ExtractCustomerName"
     /\ NoCustomersSegment(meetingDir)
     /\ ~HasSuffix(meetingDir, Slash)) =>
        ret.name.proper = ParentName(meetingDir)

\* a path without Customers and without "/" at its end, and the fallback
C11_NoTrailingSlashWitness ==
    /\ ret.op = "ExtractCustomerName"
    /\ meetingDir = AbsPath(<<Meeting1, DateString(2024, 1, 15)>>, FALSE)
    /\ ret.name.proper = Meeting1


\* ------------------------------------------------------------------------
\* SpecLocator: the Transcript Locator and Archiver on a meeting directory
\* ------------------------------------------------------------------------

\* the most files a meeting directory starts with
MaxFiles == 3

NotesTxt == <<"n","o","t","e","s",".","t","x","t">>

\* a meeting directory whose path holds a date, one whose path holds none,
\* and one whose name has a "[" that nothing closes
DatedDir == <<"/","w","/","2","0","2","6","-","0","2","-","0","4">>

PlainDir == <<"/","w","/","n">>

OpenBracketDir == <<"/","w","/","[","n">>

LocatorDirs == {DatedDir, PlainDir, OpenBracketDir}

DatedName(y, m, d) == DateString(y, m, d) \o DashTranscriptTxt

\* the file names a meeting directory may hold: the two configured
\* standard names, two dated transcripts, a day-first name and a date that
\* does not exist
FileNames ==
    { TranscriptTxt, NotesTxt,
      DatedName(2026, 2, 3), DatedName(2026, 2, 4), DatedName(2026, 2, 30),
      Digits2(2) \o Hyphen \o Digits2(4) \o Hyphen \o Digits4(2026) \o DashTranscriptTxt }

\* a disk holding the named files in dir, each file's content being the
\* path it was created under, and the instructions file when asked for
DiskOf(dir, names, withInstructions) ==
    LET paths == {PathJoin(dir, n) : n \in names}
                 \cup (IF withInstructions THEN {GetInstructionsPath} ELSE {})
    IN  [f \in paths |-> f]

InitLocator ==
    /\ meetingDir \in LocatorDirs
    /\ transcriptPath = <<>>
    /\ cfgTranscript \in {TranscriptTxt, NotesTxt}
    /\ \E names \in SUBSET FileNames, withInstructions \in BOOLEAN :
           /\ Cardinality(names) <= MaxFiles
           /\ fs = DiskOf(meetingDir, names, withInstructions)
    /\ aiOutput = <<>>
    /\ ret = NoRet
    /\ denied \in SUBSET {"Rename"}
    /\ RunIdle
    /\ pc = "locator"

SetMeetingDir(dir) ==
    /\ pc = "locator"
    /\ meetingDir' = dir
    /\ ret' = [op |-> "SetMeetingDir"]
    /\ UNCHANGED <<transcriptPath, cfgTranscript, fs, aiOutput, pc, denied, runVars>>

CallFindTranscriptFile ==
    /\ pc = "locator"
    /\ \E r \in {FindTranscriptFile(meetingDir, cfgTranscript, fs)} :
           ret' = [op |-> "FindTranscriptFile", path |-> r.path, err |-> r.err]
    /\ UNCHANGED <<meetingDir, transcriptPath, cfgTranscript, fs, aiOutput, pc, denied, runVars>>

CallValidateRequiredFiles ==
    /\ pc = "locator"
    /\ \E r \in {ValidateRequiredFiles(meetingDir, cfgTranscript, transcriptPath, fs)} :
           /\ transcriptPath' = r.transcriptPath
           /\ ret' = [op |-> "ValidateRequiredFiles", err |-> r.err]
    /\ UNCHANGED <<meetingDir, cfgTranscript, fs, aiOutput, pc, denied, runVars>>

CallRenameTranscriptFile ==
    /\ pc = "locator"
    /\ \E r \in {RenameTranscriptFile(meetingDir, transcriptPath, fs, denied)} :
           /\ transcriptPath' = r.transcriptPath
           /\ fs' = r.disk
           /\ ret' = [op |-> "RenameTranscriptFile", name |-> r.name, err |-> r.err,
                      from |-> transcriptPath, before |-> fs]
    /\ UNCHANGED <<meetingDir, cfgTranscript, aiOutput, pc, denied, runVars>>

NextLocator ==
    \/ \E dir \in LocatorDirs : SetMeetingDir(dir)
    \/ CallFindTranscriptFile
    \/ CallValidateRequiredFiles
    \/ CallRenameTranscriptFile

SpecLocator == InitLocator /\ [][NextLocator]_vars


\* ------------------------------------------------------------------------
\* Claims about the Transcript Locator
\* ------------------------------------------------------------------------

\* the names of the files directly inside dir
NamesIn(dir, disk) ==
    {SubSeq(f, Len(dir) + 2, Len(f)) :
        f \in {g \in DOMAIN disk : /\ HasPrefix(g, dir \o Slash)
                                   /\ ~Contains(SubSeq(g, Len(dir) + 2, Len(g)), Slash)}}

\* name is YYYY-MM-DD-transcript.txt for a day of the calendar
ValidDatedName(name) ==
    /\ Len(name) = 25
    /\ CalendarValid(SubSeq(name, 1, 10))
    /\ name[5] = "-" /\ name[8] = "-"
    /\ SubSeq(name, 11, 25) = DashTranscriptTxt

HasStandard == cfgTranscript \in NamesIn(meetingDir, fs)

HasValidDated == \E name \in NamesIn(meetingDir, fs) : ValidDatedName(name)

\* C1: in a meeting directory that holds both the configured standard
\* transcript and at least one valid dated transcript, FindTranscriptFile
\* returns the path of the standard-named file and no error.
C1_LocatorPrecedence ==
    (ret.op = "FindTranscriptFile" /\ HasStandard /\ HasValidDated) =>
        /\ ret.path = meetingDir \o Slash \o cfgTranscript
        /\ ret.err = NilErr

\* C1 witness: FindTranscriptFile has run on a directory holding the
\* standard transcript and two valid dated ones
C1_Witness ==
    /\ ret.op = "FindTranscriptFile"
    /\ HasStandard
    /\ {DatedName(2026, 2, 3), DatedName(2026, 2, 4)} \subseteq NamesIn(meetingDir, fs)
    /\ ret.path = meetingDir \o Slash \o cfgTranscript

\* C2 as stated: without a standard-named transcript, FindTranscriptFile
\* returns only a file named YYYY-MM-DD-transcript.txt for a day of the
\* calendar, and when no file of the directory qualifies it returns the
\* empty path and an error that carries the directory path and both file
\* names it looked for.
C2_Original ==
    (ret.op = "FindTranscriptFile" /\ ~HasStandard) =>
        /\ ret.path # <<>> => ValidDatedName(Base(ret.path))
        /\ ~HasValidDated =>
               /\ ret.path = <<>>
               /\ ret.err # NilErr
               /\ "dir" \in DOMAIN ret.err /\ ret.err.dir = meetingDir
               /\ "names" \in DOMAIN ret.err
               /\ {cfgTranscript, DatedPatternText} \subseteq ret.err.names


\* ------------------------------------------------------------------------
\* Claims about the Transcript Archiver
\* ------------------------------------------------------------------------

\* the files whose presence or content differs between two disks
ChangedPaths(before, after) ==
    { f \in DOMAIN before \cup DOMAIN after :
        \/ f \notin DOMAIN before
        \/ f \notin DOMAIN after
        \/ before[f] # after[f] }

\* RenameTranscriptFile has just returned, called with a located transcript
Archived == ret.op = "RenameTranscriptFile" /\ ret.from # <<>>

\* the dated transcript name the meeting directory calls for, and its path
DatedTranscriptName == ExtractDateFromPath(meetingDir) \o DashTranscriptTxt

DatedTranscriptPath == meetingDir \o Slash \o DatedTranscriptName

\* the located transcript's file name is of the form YYYY-MM-DD-transcript.txt
AlreadyDated == DatePatternMatch(Base(ret.from))

\* C14: when the located transcript's name is not of the form
\* YYYY-MM-DD-transcript.txt, the directory path yields a date, no
\* <date>-transcript.txt exists and the system performs the rename,
\* RenameTranscriptFile returns <date>-transcript.txt and no error, the file
\* is under the new name with its content, the old name is gone, no other
\* file is touched, and the Processor holds the new path.
C14_ArchiverRename ==
    ( /\ Archived
      /\ ~AlreadyDated
      /\ ExtractDateFromPath(meetingDir) # <<>>
      /\ DatedTranscriptPath \notin DOMAIN ret.before
      /\ "Rename" \notin denied )
    => /\ ret.name = DatedTranscriptName
       /\ ret.err = NilErr
       /\ ret.from \notin DOMAIN fs
       /\ DatedTranscriptPath \in DOMAIN fs
       /\ fs[DatedTranscriptPath] = ret.before[ret.from]
       /\ ChangedPaths(ret.before, fs) = {ret.from, DatedTranscriptPath}
       /\ transcriptPath = DatedTranscriptPath

C14_Witness ==
    /\ Archived
    /\ meetingDir = DatedDir
    /\ ret.from = DatedDir \o Slash \o TranscriptTxt
    /\ ret.name = DatedName(2026, 2, 4)
    /\ ret.from \notin DOMAIN fs
    /\ transcriptPath = DatedDir \o Slash \o DatedName(2026, 2, 4)


\* C15: when the located transcript is already named YYYY-MM-DD-transcript.txt,
\* or the directory path yields no date, RenameTranscriptFile returns an
\* empty name and no error, and leaves every file and the transcript path
\* the Processor holds as they were.
C15_ArchiverSkip ==
    (Archived /\ (AlreadyDated \/ ExtractDateFromPath(meetingDir) = <<>>))
    => /\ ret.name = <<>>
       /\ ret.err = NilErr
       /\ fs = ret.before
       /\ transcriptPath = ret.from

\* an already dated transcript in a directory dated otherwise, the dated
\* name of the directory still free
C15_Witness ==
    /\ Archived
    /\ meetingDir = DatedDir
    /\ ret.from = DatedDir \o Slash \o DatedName(2026, 2, 3)
    /\ DatedTranscriptPath \notin DOMAIN fs
    /\ ret.name = <<>>

\* a transcript located in a directory whose path carries no date
C15_UndatedWitness ==
    /\ Archived
    /\ meetingDir = PlainDir
    /\ ret.from = PlainDir \o Slash \o TranscriptTxt
    /\ ret.name = <<>>


\* <date>-transcript.txt was in the meeting directory when
\* RenameTranscriptFile was called
DestinationExisted ==
    /\ ExtractDateFromPath(meetingDir) # <<>>
    /\ DatedTranscriptPath \in DOMAIN ret.before

\* C16 as stated: whenever <date>-transcript.txt already exists in the
\* meeting directory, RenameTranscriptFile returns an error, renames nothing
\* and leaves the transcript path the Processor holds unchanged.
C16_Original ==
    (Archived /\ DestinationExisted)
    => /\ ret.err # NilErr
       /\ fs = ret.before
       /\ transcriptPath = ret.from

\* C16: when the located transcript is not already named
\* YYYY-MM-DD-transcript.txt and <date>-transcript.txt already exists in the
\* meeting directory, RenameTranscriptFile returns the conflict error naming
\* that file and an empty name, every file stays in place with its content,
\* and the transcript path the Processor holds is unchanged.
C16_ArchiverConflict ==
    (Archived /\ DestinationExisted /\ ~AlreadyDated)
    => /\ ret.err = RenameConflictErr(DatedTranscriptName)
       /\ ret.name = <<>>
       /\ fs = ret.before
       /\ {ret.from, DatedTranscriptPath} \subseteq DOMAIN fs
       /\ transcriptPath = ret.from

C16_Witness ==
    /\ Archived
    /\ meetingDir = DatedDir
    /\ ret.from = DatedDir \o Slash \o TranscriptTxt
    /\ DatedTranscriptPath \in DOMAIN ret.before
    /\ ret.err = RenameConflictErr(DatedName(2026, 2, 4))


\* a file keeps its content through a rename, and every file starts with its
\* own path as content: the dated transcript of the meeting directory is
\* there and was put there by RenameTranscriptFile
RenamedIntoPlace ==
    /\ ExtractDateFromPath(meetingDir) # <<>>
    /\ DatedTranscriptPath \in DOMAIN fs
    /\ fs[DatedTranscriptPath] # DatedTranscriptPath

\* C17 as stated: once RenameTranscriptFile has renamed the transcript of a
\* meeting directory, FindTranscriptFile on that directory returns the path
\* of the renamed file and no error.
C17_Original ==
    (ret.op = "FindTranscriptFile" /\ RenamedIntoPlace)
    => /\ ret.err = NilErr
       /\ ret.path = DatedTranscriptPath


\* C17 holds where the renamed file is the only transcript of the meeting
\* directory: no file of the configured name and no other validly dated one
C17_OnlyTranscript ==
    ( /\ ret.op = "FindTranscriptFile"
      /\ RenamedIntoPlace
      /\ ~HasStandard
      /\ \A name \in NamesIn(meetingDir, fs) :
             ValidDatedName(name) => name = DatedTranscriptName )
    => /\ ret.err = NilErr
       /\ ret.path = DatedTranscriptPath


\* RenameTranscriptFile has just renamed the transcript
Renamed == Archived /\ ret.name # <<>> /\ ret.err = NilErr

\* C28 as stated: after any sequence of SetMeetingDir, ValidateRequiredFiles
\* and RenameTranscriptFile calls, a successful rename leaves the transcript
\* in the directory it was located in, and the transcript path the Processor
\* holds, when it is not empty, names a file directly inside the current
\* meeting directory.
C28_Original ==
    /\ Renamed => Dir(transcriptPath) = Dir(ret.from)
    /\ transcriptPath # <<>> =>
           /\ transcriptPath \in DOMAIN fs
           /\ Dir(transcriptPath) = meetingDir

\* C28 holds for a rename of a transcript located in the current meeting
\* directory, and the path held always names a file
C28_LocatedInCurrentDirectory ==
    /\ (Renamed /\ Dir(ret.from) = meetingDir) =>
           /\ Dir(transcriptPath) = Dir(ret.from)
           /\ Dir(transcriptPath) = meetingDir
    /\ transcriptPath # <<>> => transcriptPath \in DOMAIN fs

\* a transcript located in one directory and renamed into another, after a
\* SetMeetingDir between the two calls
C28_MovedAcrossDirectories ==
    /\ Renamed
    /\ Dir(ret.from) = PlainDir
    /\ transcriptPath = DatedDir \o Slash \o DatedName(2026, 2, 4)
    /\ ret.from \notin DOMAIN fs


\* the validly dated transcripts of the meeting directory
ValidDatedNames == {name \in NamesIn(meetingDir, fs) : ValidDatedName(name)}

\* the one with the smallest name, which is the earliest date
EarliestDatedName ==
    CHOOSE name \in ValidDatedNames :
        \A other \in ValidDatedNames \ {name} : TextLess(name, other)

\* no standard-named transcript, several validly dated ones
SeveralDated == ~HasStandard /\ Cardinality(ValidDatedNames) >= 2

\* the directory path holds none of the characters filepath.Match reads as
\* a pattern
PlainDirectoryName == \A i \in 1..Len(meetingDir) : meetingDir[i] \notin {"*", "?", "[", "\\"}

\* C30 as stated: in a directory without a standard-named transcript and
\* with several validly dated ones, FindTranscriptFile returns, on every
\* call and whatever else the directory holds, the path of the qualifying
\* file with the smallest name, and no error.
C30_Original ==
    (ret.op = "FindTranscriptFile" /\ SeveralDated) =>
        /\ ret.err = NilErr
        /\ ret.path = meetingDir \o Slash \o EarliestDatedName
        /\ [path |-> ret.path, err |-> ret.err]
               = FindTranscriptFile(meetingDir, cfgTranscript, fs)

\* C30 holds in every directory whose path holds no pattern character
C30_InPlainDirectories ==
    (ret.op = "FindTranscriptFile" /\ SeveralDated /\ PlainDirectoryName) =>
        /\ ret.err = NilErr
        /\ ret.path = meetingDir \o Slash \o EarliestDatedName
        /\ [path |-> ret.path, err |-> ret.err]
               = FindTranscriptFile(meetingDir, cfgTranscript, fs)

\* two validly dated transcripts, the earlier one returned
C30_EarliestReturned ==
    /\ ret.op = "FindTranscriptFile"
    /\ meetingDir = DatedDir
    /\ ValidDatedNames = {DatedName(2026, 2, 3), DatedName(2026, 2, 4)}
    /\ ret.path = DatedDir \o Slash \o DatedName(2026, 2, 3)


\* ------------------------------------------------------------------------
\* SpecSanitizer: cleanAIOutput applied to a raw output
\* ------------------------------------------------------------------------

\* the most lines a raw output has
MaxLines == 4

\* the lines raw outputs are made of: an empty line, a content line, a
\* diagnostic line that is also one of errorPatterns, a diagnostic line
\* that is not, the two fence lines, a title line of either kind, and a
\* diagnostic line that carries the title marker
OutputLines ==
    { <<>>,
      <<"Body">>,
      <<"Loaded cached credentials", ".">>,
      <<"Error executing tool", " ", "read_file:">>,
      FenceMarkdown,
      Fence,
      <<"*_", "Title">>,
      <<"ACME", "_SUMMARY_">>,
      <<"Here is the content", " ", "_SUMMARY_">> }

RawOutputs == {Join(lines, NL) : lines \in SegLists(OutputLines, MaxLines) \ {<<>>}}

InitSanitizer ==
    /\ meetingDir = <<>>
    /\ transcriptPath = <<>>
    /\ cfgTranscript = TranscriptTxt
    /\ fs = EmptyFS
    /\ aiOutput \in RawOutputs
    /\ ret = NoRet
    /\ denied = {}
    /\ RunIdle
    /\ pc = "sanitizer"

CallCleanAIOutput ==
    /\ pc = "sanitizer"
    /\ ret' = [op |-> "cleanAIOutput", cleaned |-> cleanAIOutput(aiOutput)]
    /\ pc' = "cleaned"
    /\ UNCHANGED <<meetingDir, transcriptPath, cfgTranscript, fs, aiOutput, denied, runVars>>

NextSanitizer == CallCleanAIOutput

SpecSanitizer == InitSanitizer /\ [][NextSanitizer]_vars


\* ------------------------------------------------------------------------
\* Claims about the Output Sanitizer
\* ------------------------------------------------------------------------

OutLines == Split(aiOutput, NL)

\* the line contains one of the diagnostic substrings of the line filter
Diagnostic(line) == \E k \in 1..Len(NoiseSubstrings) : Contains(line, NoiseSubstrings[k])

StartsFence(line) == HasPrefix(line, Fence)

StartsFenceMarkdown(line) == HasPrefix(line, FenceMarkdown)

TitleMarked(line) == Contains(line, SummaryMarker) \/ HasPrefix(line, EmphasisMarker)

\* the raw output is an opening line, body lines 2..close-1 that are
\* neither diagnostic nor fence lines, a closing line at close, and
\* anything after it
FencedShape(close) ==
    /\ close \in 3..Len(OutLines)
    /\ StartsFenceMarkdown(OutLines[1]) /\ ~Diagnostic(OutLines[1])
    /\ \A i \in 2..(close - 1) : ~Diagnostic(OutLines[i]) /\ ~StartsFence(OutLines[i])
    /\ StartsFence(OutLines[close]) /\ ~Diagnostic(OutLines[close])

\* C6 as stated: for a raw output made of an opening line that starts with
\* the markdown fence, one or more body lines, a closing line that starts
\* with the fence marker, and arbitrary trailing lines, cleanAIOutput
\* returns exactly the body lines joined by newlines and trimmed.
C6_Original ==
    ret.op = "cleanAIOutput" =>
        \A close \in 1..Len(OutLines) :
            FencedShape(close) =>
                ret.cleaned = TrimSpace(Join(SubSeq(OutLines, 2, close - 1), NL))

\* C6 where it holds: the same, for a closing line that starts with the
\* fence marker and is not itself a markdown fence line.
C6_ClosedByPlainFence ==
    ret.op = "cleanAIOutput" =>
        \A close \in 1..Len(OutLines) :
            (FencedShape(close) /\ ~StartsFenceMarkdown(OutLines[close])) =>
                ret.cleaned = TrimSpace(Join(SubSeq(OutLines, 2, close - 1), NL))

\* a fenced block closed by a plain fence and followed by a content line
C6_ClosedByPlainFenceWitness ==
    /\ ret.op = "cleanAIOutput"
    /\ aiOutput = Join(<<FenceMarkdown, <<"Body">>, Fence, <<"Body">> >>, NL)
    /\ ret.cleaned = <<"Body">>

\* C7 as stated: when every non-empty line of the raw output contains a
\* diagnostic substring of the line filter, and no line is a fence line or
\* carries a title marker, cleanAIOutput returns the empty string.
C7_Original ==
    (/\ ret.op = "cleanAIOutput"
     /\ \A i \in 1..Len(OutLines) :
            /\ OutLines[i] = <<>> \/ Diagnostic(OutLines[i])
            /\ ~StartsFence(OutLines[i])
            /\ ~TitleMarked(OutLines[i]))
        => ret.cleaned = <<>>

\* the first markdown fence line of the raw output, 0 when there is none
FirstOpen ==
    LET at == {i \in 1..Len(OutLines) :
                  StartsFenceMarkdown(OutLines[i]) /\ ~Diagnostic(OutLines[i])}
    IN  IF at = {} THEN 0 ELSE Min(at)

\* the line that ends the block opened at FirstOpen: the first fence line
\* after it, or one past the last line when nothing closes the block
BlockEnd ==
    LET at == {i \in (FirstOpen + 1)..Len(OutLines) :
                  StartsFence(OutLines[i]) /\ ~Diagnostic(OutLines[i])}
    IN  IF at = {} THEN Len(OutLines) + 1 ELSE Min(at)

BlockBody == SubSeq(OutLines, FirstOpen + 1, BlockEnd - 1)

RECURSIVE WithoutDiagnostics(_)
WithoutDiagnostics(lines) ==
    IF lines = <<>> THEN <<>>
    ELSE IF Diagnostic(Head(lines)) THEN WithoutDiagnostics(Tail(lines))
    ELSE <<Head(lines)>> \o WithoutDiagnostics(Tail(lines))

\* the body of the first fenced block holds a diagnostic line and a line
\* that is not one
InterleavedBlock ==
    /\ FirstOpen # 0
    /\ \E i \in 1..Len(BlockBody) : Diagnostic(BlockBody[i])
    /\ \E i \in 1..Len(BlockBody) : ~Diagnostic(BlockBody[i])

\* C8: for a raw output with a markdown fenced block whose body mixes
\* diagnostic lines with content lines, no line of the result contains a
\* diagnostic substring, and the body's other lines appear in the result
\* in their original order (up to the trimming of white space at the ends).
C8_NoiseInsideFence ==
    (ret.op = "cleanAIOutput" /\ InterleavedBlock) =>
        /\ \A line \in Range(Split(ret.cleaned, NL)) : ~Diagnostic(line)
        /\ Contains(ret.cleaned, TrimSpace(Join(WithoutDiagnostics(BlockBody), NL)))

\* C8 witness: a block whose body is content, diagnostic, content
C8_Witness ==
    /\ ret.op = "cleanAIOutput"
    /\ aiOutput = Join(<<FenceMarkdown, <<"Body">>,
                         <<"Error executing tool", " ", "read_file:">>,
                         <<"ACME", "_SUMMARY_">> >>, NL)
    /\ ret.cleaned = <<"Body", "\n", "ACME", "_SUMMARY_">>


\* the block opened at FirstOpen meets a markdown fence line before any
\* plain fence line, after at least one line was accumulated
ReopenedBlock ==
    /\ FirstOpen # 0
    /\ BlockEnd <= Len(OutLines)
    /\ StartsFenceMarkdown(OutLines[BlockEnd])
    /\ WithoutDiagnostics(BlockBody) # <<>>

\* C22 as stated: a markdown fence line met while a fenced block is open
\* closes the block, and cleanAIOutput returns the lines accumulated up to
\* it, joined and trimmed.
C22_Original ==
    (ret.op = "cleanAIOutput" /\ ReopenedBlock) =>
        ret.cleaned = TrimSpace(Join(WithoutDiagnostics(BlockBody), NL))

\* what the code does instead: the second markdown fence line is skipped
\* and the lines after it are accumulated as well
C22_SecondFenceSkipped ==
    /\ ret.op = "cleanAIOutput"
    /\ aiOutput = Join(<<FenceMarkdown, <<"Body">>, FenceMarkdown, <<"*_", "Title">> >>, NL)
    /\ ret.cleaned = Join(<< <<"Body">>, <<"*_", "Title">> >>, NL)


\* the line at which the loop of cleanAIOutput leaves the fenced block: the
\* first fence line after FirstOpen that is not a markdown fence line, one
\* past the last line when there is none
ClosingFence ==
    LET at == {i \in (FirstOpen + 1)..Len(OutLines) :
                  /\ StartsFence(OutLines[i])
                  /\ ~StartsFenceMarkdown(OutLines[i])
                  /\ ~Diagnostic(OutLines[i])}
    IN  IF at = {} THEN Len(OutLines) + 1 ELSE Min(at)

\* a fenced block was opened and closed
ClosedBlock == FirstOpen # 0 /\ ClosingFence <= Len(OutLines)

\* the raw output cut after its closing fence line
UpToClosingFence == Join(SubSeq(OutLines, 1, ClosingFence), NL)

\* some line between the opening and the closing fence is accumulated
BlockAccumulates ==
    \E i \in (FirstOpen + 1)..(ClosingFence - 1) :
        ~Diagnostic(OutLines[i]) /\ ~StartsFenceMarkdown(OutLines[i])

\* C23 as stated: once the closing fence of a fenced block is reached, no
\* line after it contributes to the value cleanAIOutput returns, also when
\* the block held no line: the value is the one returned for the raw output
\* cut after the closing fence.
C23_Original ==
    (ret.op = "cleanAIOutput" /\ ClosedBlock) =>
        ret.cleaned = cleanAIOutput(UpToClosingFence)

\* C23 holds for a block from which at least one line was accumulated
C23_AfterNonEmptyBlock ==
    (ret.op = "cleanAIOutput" /\ ClosedBlock /\ BlockAccumulates) =>
        ret.cleaned = cleanAIOutput(UpToClosingFence)

\* an empty block followed by a line, which the fallback pass returns
C23_EmptyBlockTrailing ==
    /\ ret.op = "cleanAIOutput"
    /\ aiOutput = Join(<<FenceMarkdown, Fence, <<"Body">> >>, NL)
    /\ ret.cleaned = <<"Body">>


\* no line of the raw output starts with the markdown fence
Unfenced == \A i \in 1..Len(OutLines) : ~StartsFenceMarkdown(OutLines[i])

\* the first line that carries a title marker, and the first that does so
\* without a diagnostic substring; 0 when there is none
FirstMarked ==
    LET at == {i \in 1..Len(OutLines) : TitleMarked(OutLines[i])}
    IN  IF at = {} THEN 0 ELSE Min(at)

FirstCleanMarked ==
    LET at == {i \in 1..Len(OutLines) : TitleMarked(OutLines[i]) /\ ~Diagnostic(OutLines[i])}
    IN  IF at = {} THEN 0 ELSE Min(at)

\* line first, then every later line without a diagnostic substring
FromLine(first) ==
    <<OutLines[first]>> \o WithoutDiagnostics(SubSeq(OutLines, first + 1, Len(OutLines)))

\* C24 as stated: for a raw output without a markdown fence line in which
\* some line carries a title marker, cleanAIOutput returns the trimmed join
\* of the first such line and of every later line without a diagnostic
\* substring.
C24_Original ==
    (ret.op = "cleanAIOutput" /\ Unfenced /\ FirstMarked # 0) =>
        ret.cleaned = TrimSpace(Join(FromLine(FirstMarked), NL))

\* C24: for a raw output without a markdown fence line in which some line
\* without a diagnostic substring carries a title marker, cleanAIOutput
\* returns the trimmed join of the first such line and of every later line
\* without a diagnostic substring; every line before it is dropped.
C24_UnfencedStart ==
    (ret.op = "cleanAIOutput" /\ Unfenced /\ FirstCleanMarked # 0) =>
        ret.cleaned = TrimSpace(Join(FromLine(FirstCleanMarked), NL))

\* a content line before the title line, a diagnostic line and an empty
\* line after it
C24_Witness ==
    /\ ret.op = "cleanAIOutput"
    /\ aiOutput = Join(<< <<"Body">>, <<"*_", "Title">>,
                          <<"Loaded cached credentials", ".">>, <<>> >>, NL)
    /\ ret.cleaned = <<"*_", "Title">>


\* the first pass of cleanAIOutput accumulated no line
NothingAccumulated == CollectLines(OutLines, <<>>, FALSE, FALSE) = <<>>

\* the last line of the raw output with a diagnostic substring, 0 when
\* there is none
LastDiagnostic ==
    LET at == {i \in 1..Len(OutLines) : Diagnostic(OutLines[i])}
    IN  IF at = {} THEN 0 ELSE CHOOSE i \in at : \A j \in at : j <= i

CleanedLines == Split(ret.cleaned, NL)

\* the returned text holds no fence marker and has no white space at its ends
FenceFreeAndTrimmed ==
    /\ ~Contains(ret.cleaned, Fence)
    /\ TrimSpace(ret.cleaned) = ret.cleaned

\* C25 as stated: when the first pass accumulates nothing, the returned
\* text keeps nothing of a line with a diagnostic substring or of the lines
\* before it (so no line of it is diagnostic and it has no more lines than
\* follow the last diagnostic line), holds no fence marker and is trimmed.
C25_Original ==
    (ret.op = "cleanAIOutput" /\ NothingAccumulated) =>
        /\ \A i \in 1..Len(CleanedLines) : ~Diagnostic(CleanedLines[i])
        /\ ret.cleaned # <<>> => Len(CleanedLines) <= Len(OutLines) - LastDiagnostic
        /\ FenceFreeAndTrimmed

\* the part of C25 that holds: no fence marker, trimmed
C25_FenceFreeAndTrimmed ==
    (ret.op = "cleanAIOutput" /\ NothingAccumulated) => FenceFreeAndTrimmed

\* a diagnostic line that is none of the patterns of the fallback pass
C25_DiagnosticKept ==
    /\ ret.op = "cleanAIOutput"
    /\ aiOutput = Join(<< <<"Error executing tool", " ", "read_file:">>, <<"Body">> >>, NL)
    /\ ret.cleaned = aiOutput


\* ------------------------------------------------------------------------
\* Summary generation (Processor.GenerateSummary, Processor.SaveSummary)
\* ------------------------------------------------------------------------

PovInputMd == <<"p","o","v","-","i","n","p","u","t",".","m","d">>

\* Config.GetPovInputPath
GetPovInputPath(dir) == PathJoin(dir, PovInputMd)

\* config.AI.Command
AICommand == "gemini"

\* what a path holds when it is a directory and not a file: reading it fails
DirectoryEntry == <<"<directory>">>

\* script.File(path).String() succeeds
Readable(path, disk) == path \in DOMAIN disk /\ disk[path] # DirectoryEntry

\* Processor.LoadInstructions: [content, err]
LoadInstructions(disk) ==
    IF Readable(GetInstructionsPath, disk)
    THEN [content |-> disk[GetInstructionsPath], err |-> NilErr]
    ELSE [content |-> <<>>, err |-> [msg |-> "failed to load instructions: %w"]]

\* Processor.LoadTranscript: [content, err]
LoadTranscript(held, disk) ==
    IF held = <<>>
    THEN [content |-> <<>>,
          err |-> [msg |-> "transcript path not set; call ValidateRequiredFiles first"]]
    ELSE IF Readable(held, disk)
    THEN [content |-> disk[held], err |-> NilErr]
    ELSE [content |-> <<>>, err |-> [msg |-> "failed to load transcript: %w"]]

\* Processor.LoadContext: [content, err], the context guide, empty without
\* a POV file
LoadContext(dir, disk) ==
    IF ~StatOK(GetPovInputPath(dir), disk) THEN [content |-> <<>>, err |-> NilErr]
    ELSE IF ~Readable(GetPovInputPath(dir), disk)
    THEN [content |-> <<>>, err |-> [msg |-> "failed to load context: %w"]]
    ELSE [content |-> <<"CONTEXT GUIDE:", "\n">> \o disk[GetPovInputPath(dir)],
          err |-> NilErr]

CadenceCallSummaryMd == <<"-","c","a","d","e","n","c","e","-","c","a","l","l","-","s","u","m","m","a","r","y",".","m","d">>

\* Processor.GenerateOutputFilename
GenerateOutputFilename(dir) ==
    LET Filename(customerNameProper, date) ==
            IF date # <<>>
            THEN date \o Hyphen \o customerNameProper \o CadenceCallSummaryMd
            ELSE customerNameProper \o CadenceCallSummaryMd
    IN  Filename(ExtractCustomerName(dir).proper, ExtractDateFromPath(dir))

Undated == <<"U","N","D","A","T","E","D">>

\* the fixed text of the prompt around the user name
DirectiveHead ==
    <<"Process the transcript in transcript.txt and generate a structured meeting summary following the provided instructions. Use the current working directory path to derive the customer name. Write the summary from ">>

DirectiveTail == <<"'s first-person perspective.">>

MeetingDateLabel == <<"The meeting date should be: ">>

CustomerLabel == <<"The customer name should be: ">>

UppercaseOpen == <<" (uppercase: ">>

UppercaseClose == <<")">>

TranscriptHeader == <<"TRANSCRIPT:">>

\* the prompt with the context block put before the transcript
Prompt_ContextBeforeTranscript(instructions, name, dir, transcript, context) ==
    LET Format(customer, date) ==
            instructions \o NL \o NL
            \o DirectiveHead \o name \o DirectiveTail \o NL \o NL
            \o MeetingDateLabel \o (IF date # <<>> THEN date ELSE Undated) \o NL
            \o CustomerLabel \o customer.proper
            \o UppercaseOpen \o customer.upper \o UppercaseClose \o NL \o NL
            \o context \o NL \o NL
            \o TranscriptHeader \o NL \o transcript
    IN  Format(ExtractCustomerName(dir), ExtractDateFromPath(dir))

\* the prompt GenerateSummary formats: the text fed to the AI command
Prompt(instructions, name, dir, transcript, context) ==
    LET Format(customer, date) ==
            instructions \o NL \o NL
            \o DirectiveHead \o name \o DirectiveTail \o NL \o NL
            \o MeetingDateLabel \o (IF date # <<>> THEN date ELSE Undated) \o NL
            \o CustomerLabel \o customer.proper
            \o UppercaseOpen \o customer.upper \o UppercaseClose \o NL \o NL
            \o TranscriptHeader \o NL \o transcript \o NL \o NL
            \o context
    IN  Format(ExtractCustomerName(dir), ExtractDateFromPath(dir))

\* cmd.Run returned an *exec.ExitError: the command ran and exited non-zero
ExitStatus1 == [msg |-> "exit status %d", code |-> 1]

\* cmd.Run returned the *exec.Error of the failed look-up of the command
NotFoundInPath ==
    [msg |-> "exec: %q: executable file not found in $PATH", name |-> AICommand]

\* an executeAICommand that captures both streams in one buffer
executeAICommand_CombinedOutput(stdout, stderr, err) ==
    [stdout |-> stdout \o stderr, stderr |-> stderr, err |-> err]

\* Processor.executeAICommand: what the command wrote and how it ended
executeAICommand(stdout, stderr, err) == [stdout |-> stdout, stderr |-> stderr, err |-> err]

\* Processor.logCommandError: the records the call adds to the log
logCommandError(log, dir, stderr, err) ==
    IF log = "nil" THEN <<>>
    ELSE << [msg |-> "AI command failed", command |-> AICommand, error |-> err,
             stderr |-> TrimSpace(stderr), meeting_dir |-> dir] >>

GenerateFailedErr(cause) == [msg |-> "failed to generate summary: %w", cause |-> cause]

\* a GenerateSummary that takes what the AI command wrote however the
\* command ended
GenerateSummary_IgnoresExit(dir, held, disk, name, log, stdout, stderr, cmdErr) ==
    LET early(e) == [result |-> <<>>, err |-> e, prompt |-> <<>>, logged |-> <<>>]
        Loaded(instructions, transcript, context) ==
            IF instructions.err # NilErr THEN early(instructions.err)
            ELSE IF transcript.err # NilErr THEN early(transcript.err)
            ELSE IF context.err # NilErr THEN early(context.err)
            ELSE [result |-> cleanAIOutput(stdout), err |-> NilErr,
                  prompt |-> Prompt(instructions.content, name, dir, transcript.content,
                                    context.content),
                  logged |-> <<>>]
    IN  Loaded(LoadInstructions(disk), LoadTranscript(held, disk), LoadContext(dir, disk))

\* Processor.GenerateSummary: the result, the error, the prompt the AI
\* command was started with (empty when it was not started) and the
\* records logged
GenerateSummary(dir, held, disk, name, log, stdout, stderr, cmdErr) ==
    LET early(e) == [result |-> <<>>, err |-> e, prompt |-> <<>>, logged |-> <<>>]
        Executed(input, ran) ==
            IF ran.err # NilErr
            THEN [result |-> <<>>, err |-> GenerateFailedErr(ran.err), prompt |-> input,
                  logged |-> logCommandError(log, dir, ran.stderr, ran.err)]
            ELSE [result |-> cleanAIOutput(ran.stdout), err |-> NilErr, prompt |-> input,
                  logged |-> <<>>]
        Loaded(instructions, transcript, context) ==
            IF instructions.err # NilErr THEN early(instructions.err)
            ELSE IF transcript.err # NilErr THEN early(transcript.err)
            ELSE IF context.err # NilErr THEN early(context.err)
            ELSE Executed(Prompt(instructions.content, name, dir, transcript.content,
                                 context.content),
                          executeAICommand(stdout, stderr, cmdErr))
    IN  Loaded(LoadInstructions(disk), LoadTranscript(held, disk), LoadContext(dir, disk))

SaveFailedErr == [msg |-> "failed to save summary: %w"]

\* Processor.SaveSummary: the path written, the error, the disk afterwards
SaveSummary(dir, content, disk, refused) ==
    LET WriteFile(outputPath, written) ==
            IF "WriteFile" \in refused
            THEN [path |-> <<>>, err |-> SaveFailedErr, disk |-> disk]
            ELSE [path |-> outputPath, err |-> NilErr,
                  disk |-> [f \in DOMAIN disk \cup {outputPath} |->
                               IF f = outputPath THEN written ELSE disk[f]]]
    IN  WriteFile(PathJoin(dir, GenerateOutputFilename(dir)),
                  IF HasSuffix(content, NL) THEN content ELSE content \o NL)


\* ------------------------------------------------------------------------
\* Inputs of a run: meeting directories, their files, the AI command
\* ------------------------------------------------------------------------

CustomerDatedDir ==
    Slash \o Customers \o Slash \o Acme \o Slash \o DateString(2026, 2, 4)

RunDirs == {CustomerDatedDir, PlainDir}

\* the files a meeting directory may hold before a run: transcripts, the
\* context guide and a summary left by an earlier run
RunFileNames(dir) ==
    {TranscriptTxt, DatedName(2026, 2, 4), PovInputMd, GenerateOutputFilename(dir)}

\* what the AI command may write to standard output: nothing, a plain
\* body, a fenced body, and diagnostics only
RunOutputs ==
    { <<>>,
      <<"Body">>,
      Join(<<FenceMarkdown, <<"Body">>, Fence>>, NL),
      <<"Loaded cached credentials", ".", "\n">> }

\* what the AI command may write to standard error: nothing, a failure
\* notice, and a line that carries the summary title marker
RunStderrs == { <<>>, <<"auth failed", "\n">>, SummaryMarker \o NL }

Users == { <<"D","a","n","a">> }

\* how the AI command may end, with what it wrote: a command that could
\* not be started wrote nothing
AIEnds(stdout, stderr, err) ==
    /\ stdout \in RunOutputs
    /\ stderr \in RunStderrs
    /\ err \in {NilErr, ExitStatus1, NotFoundInPath}
    /\ err = NotFoundInPath => (stdout = <<>> /\ stderr = <<>>)

\* ------------------------------------------------------------------------
\* SpecProcessor: a Processor set up on a meeting directory, as a caller
\* of the summary package drives it
\* ------------------------------------------------------------------------

\* the disk with the POV file of the directory, when it has one, being a
\* directory of that name
WithPovDirectory(dir, disk) ==
    [f \in DOMAIN disk |-> IF f = GetPovInputPath(dir) THEN DirectoryEntry ELSE disk[f]]

InitProcessor ==
    /\ meetingDir \in RunDirs
    /\ transcriptPath = <<>>
    /\ cfgTranscript = TranscriptTxt
    /\ \E names \in SUBSET RunFileNames(meetingDir), withInstructions \in BOOLEAN,
          povIsDirectory \in BOOLEAN :
           /\ povIsDirectory => PovInputMd \in names
           /\ fs = IF povIsDirectory
                   THEN WithPovDirectory(meetingDir, DiskOf(meetingDir, names, withInstructions))
                   ELSE DiskOf(meetingDir, names, withInstructions)
    /\ AIEnds(aiOutput, aiStderr, aiErr)
    /\ ret = NoRet
    /\ pc = "processor"
    /\ denied \in SUBSET {"WriteFile"}
    /\ traceMode = FALSE
    /\ logger \in {"nil", "set"}
    /\ logRecords = <<>>
    /\ cwd = OriginalDir
    /\ summary = <<>>
    /\ generated = NotReturned
    /\ model = NewSpinnerModel
    /\ calls = <<>>
    /\ userName \in Users
    /\ prompt = <<>>
    /\ outcome = Running

ProcessorValidateRequiredFiles ==
    /\ pc = "processor"
    /\ \E r \in {ValidateRequiredFiles(meetingDir, cfgTranscript, transcriptPath, fs)} :
           /\ transcriptPath' = r.transcriptPath
           /\ ret' = [op |-> "ValidateRequiredFiles", err |-> r.err]
    /\ UNCHANGED <<meetingDir, cfgTranscript, fs, aiOutput, pc, denied, runVars>>

ProcessorGenerateSummary ==
    /\ pc = "processor"
    /\ generated = NotReturned
    /\ \E g \in {GenerateSummary(meetingDir, transcriptPath, fs, userName, logger,
                                aiOutput, aiStderr, aiErr)} :
           /\ ret' = [op |-> "GenerateSummary", result |-> g.result, err |-> g.err]
           /\ generated' = [state |-> "returned", result |-> g.result, err |-> g.err]
           /\ prompt' = g.prompt
           /\ logRecords' = logRecords \o g.logged
    /\ UNCHANGED <<meetingDir, transcriptPath, cfgTranscript, fs, aiOutput, pc, denied,
                   aiStderr, aiErr, traceMode, logger, cwd, summary, model, calls,
                   userName, outcome>>

ProcessorSaveSummary ==
    /\ pc = "processor"
    /\ generated # NotReturned
    /\ generated.err = NilErr
    /\ \E r \in {SaveSummary(meetingDir, generated.result, fs, denied)} :
           /\ fs' = r.disk
           /\ ret' = [op |-> "SaveSummary", path |-> r.path, err |-> r.err,
                      content |-> generated.result, before |-> fs]
    /\ UNCHANGED <<meetingDir, transcriptPath, cfgTranscript, aiOutput, pc, denied, runVars>>

NextProcessor ==
    \/ ProcessorValidateRequiredFiles
    \/ ProcessorGenerateSummary
    \/ ProcessorSaveSummary

SpecProcessor == InitProcessor /\ [][NextProcessor]_vars

\* the error GenerateSummary returned names the AI command
CarriesCommandName(err) ==
    /\ "cause" \in DOMAIN err
    /\ "name" \in DOMAIN err.cause
    /\ err.cause.name = AICommand

\* the error GenerateSummary returned wraps the error of cmd.Run
CarriesExecutionError(err) == "cause" \in DOMAIN err /\ err.cause = aiErr

\* the error GenerateSummary returned holds what the command wrote to
\* standard error, when it wrote anything
CarriesStderr(err) ==
    \/ TrimSpace(aiStderr) = <<>>
    \/ "stderr" \in DOMAIN err /\ err.stderr = TrimSpace(aiStderr)

\* the AI command was started and did not end well
AIFailed == prompt # <<>> /\ aiErr # NilErr

\* C5 as stated: whenever the AI command exits non-zero or cannot be
\* started, the error GenerateSummary returns carries the command name,
\* the execution error and the captured standard error, with or without a
\* logger.
C5_Original ==
    (ret.op = "GenerateSummary" /\ AIFailed) =>
        /\ CarriesCommandName(ret.err)
        /\ CarriesExecutionError(ret.err)
        /\ CarriesStderr(ret.err)

\* what the code keeps of C5: the returned error wraps the execution
\* error, and with a logger the command name and the standard error are
\* logged once
C5_WhatIsKept ==
    (ret.op = "GenerateSummary" /\ AIFailed) =>
        /\ CarriesExecutionError(ret.err)
        /\ logger = "set" =>
               /\ Len(logRecords) = 1
               /\ logRecords[1].command = AICommand
               /\ logRecords[1].stderr = TrimSpace(aiStderr)
        /\ logger = "nil" => logRecords = <<>>


\* the AI command was started: the prompt it was fed is kept
PromptStarted == prompt # <<>>

\* the context block: the line CONTEXT GUIDE: and the content of the context
\* file, or nothing without that file
ContextBlock ==
    IF GetPovInputPath(meetingDir) \in DOMAIN fs
    THEN <<"CONTEXT GUIDE:">> \o NL \o fs[GetPovInputPath(meetingDir)]
    ELSE <<>>

\* the lines of the prompt in their order, an empty entry for a blank line
PromptParts ==
    << fs[GetInstructionsPath],
       <<>>,
       DirectiveHead \o userName \o DirectiveTail,
       <<>>,
       MeetingDateLabel \o (IF ExtractDateFromPath(meetingDir) # <<>>
                            THEN ExtractDateFromPath(meetingDir) ELSE Undated),
       CustomerLabel \o ExtractCustomerName(meetingDir).proper
           \o UppercaseOpen \o ToUpper(ExtractCustomerName(meetingDir).proper)
           \o UppercaseClose,
       <<>>,
       TranscriptHeader,
       fs[transcriptPath],
       <<>>,
       ContextBlock >>

\* C18: the prompt fed to the AI command is, in this order: the instructions,
\* a blank line, the directive naming the user, a blank line, the meeting-date
\* line (the path date or UNDATED), the customer line (the name and its
\* upper-cased form), a blank line, the TRANSCRIPT: header, the transcript, a
\* blank line and the context block (CONTEXT GUIDE: and the content of the
\* context file, or nothing without that file).
C18_PromptComposition ==
    PromptStarted => prompt = Join(PromptParts, NL)

\* a dated customer directory with a context file
C18_Witness ==
    /\ PromptStarted
    /\ meetingDir = CustomerDatedDir
    /\ GetPovInputPath(meetingDir) \in DOMAIN fs
    /\ Contains(prompt, <<"CONTEXT GUIDE:">>)
    /\ Contains(prompt, MeetingDateLabel \o DateString(2026, 2, 4))

\* a directory without a date and without a context file
C18_UndatedWitness ==
    /\ PromptStarted
    /\ meetingDir = PlainDir
    /\ GetPovInputPath(meetingDir) \notin DOMAIN fs
    /\ Contains(prompt, MeetingDateLabel \o Undated)
    /\ ~Contains(prompt, <<"CONTEXT GUIDE:">>)


\* GenerateSummary has just returned a summary of an AI command that ended
\* without error
SummaryReturned ==
    ret.op = "GenerateSummary" /\ aiErr = NilErr /\ ret.err = NilErr

\* C21: only the standard output of the AI command reaches the sanitizer:
\* whatever an invocation that ends without error writes to standard error,
\* GenerateSummary returns for the same standard output the same summary,
\* the sanitized standard output.
C21_StreamSeparation ==
    SummaryReturned =>
        /\ ret.result = cleanAIOutput(aiOutput)
        /\ \A other \in RunStderrs :
               GenerateSummary(meetingDir, transcriptPath, fs, userName, logger,
                               aiOutput, other, NilErr).result = ret.result

\* an invocation that wrote a marked line to standard error and a body to
\* standard output
C21_Witness ==
    /\ SummaryReturned
    /\ aiStderr = SummaryMarker \o NL
    /\ aiOutput = <<"Body">>
    /\ ret.result = <<"Body">>


\* the instructions and the located transcript can be read
InstructionsLoadable == Readable(GetInstructionsPath, fs)

TranscriptLoadable == transcriptPath # <<>> /\ Readable(transcriptPath, fs)

\* the optional context file is there but cannot be read
ContextUnreadable ==
    /\ GetPovInputPath(meetingDir) \in DOMAIN fs
    /\ ~Readable(GetPovInputPath(meetingDir), fs)

\* C26 as stated: GenerateSummary fails before the AI command is started
\* only when the instructions or the transcript cannot be loaded, whatever
\* the state of the optional context file; when one of the two cannot be
\* loaded it fails without starting the AI command.
C26_Original ==
    ret.op = "GenerateSummary" =>
        /\ (InstructionsLoadable /\ TranscriptLoadable) => PromptStarted
        /\ ~(InstructionsLoadable /\ TranscriptLoadable) =>
               ret.err # NilErr /\ ~PromptStarted

\* C26 holds as long as the context file, when there is one, can be read
C26_WithReadableContext ==
    (ret.op = "GenerateSummary" /\ ~ContextUnreadable) =>
        /\ (InstructionsLoadable /\ TranscriptLoadable) => PromptStarted
        /\ ~(InstructionsLoadable /\ TranscriptLoadable) =>
               ret.err # NilErr /\ ~PromptStarted

\* the failure on a context file that cannot be read
C26_ContextFailure ==
    /\ ret.op = "GenerateSummary"
    /\ InstructionsLoadable /\ TranscriptLoadable
    /\ ContextUnreadable
    /\ ret.err = [msg |-> "failed to load context: %w"]
    /\ ~PromptStarted


\* ------------------------------------------------------------------------
\* SpecSave: GenerateOutputFilename and SaveSummary of a Processor set up on
\* a meeting directory, the summary text chosen by the caller
\* ------------------------------------------------------------------------

\* a meeting directory directly below the root
RootLevelDir == Slash \o <<"n">>

SaveDirs == {CustomerDatedDir, PlainDir, DatedDir, RootLevelDir}

\* the summary text SaveSummary may be handed, with no, one or two closing
\* line feeds
SaveContents ==
    { <<>>, NL, <<"Body">>, <<"Body">> \o NL, <<"Body">> \o NL \o NL,
      <<"Title">> \o NL \o <<"Body">> }

InitSave ==
    /\ meetingDir \in SaveDirs
    /\ transcriptPath = <<>>
    /\ cfgTranscript = TranscriptTxt
    /\ \E names \in SUBSET {TranscriptTxt, GenerateOutputFilename(meetingDir)} :
           fs = DiskOf(meetingDir, names, TRUE)
    /\ aiOutput = <<>>
    /\ ret = NoRet
    /\ pc = "save"
    /\ denied \in SUBSET {"WriteFile"}
    /\ RunIdle

CallGenerateOutputFilename ==
    /\ pc = "save"
    /\ ret' = [op |-> "GenerateOutputFilename",
               filename |-> GenerateOutputFilename(meetingDir)]
    /\ UNCHANGED <<meetingDir, transcriptPath, cfgTranscript, fs, aiOutput, pc, denied,
                   runVars>>

CallSaveSummary ==
    /\ pc = "save"
    /\ \E content \in SaveContents :
         \E r \in {SaveSummary(meetingDir, content, fs, denied)} :
           /\ fs' = r.disk
           /\ ret' = [op |-> "SaveSummary", path |-> r.path, err |-> r.err,
                      content |-> content, before |-> fs]
    /\ UNCHANGED <<meetingDir, transcriptPath, cfgTranscript, aiOutput, pc, denied, runVars>>

NextSave ==
    \/ CallGenerateOutputFilename
    \/ CallSaveSummary

SpecSave == InitSave /\ [][NextSave]_vars

\* ------------------------------------------------------------------------
\* Claims about the output file
\* ------------------------------------------------------------------------

\* the output file name the meeting directory calls for
NamedForDirectory(dir) ==
    IF ExtractDateFromPath(dir) # <<>>
    THEN Join(<<ExtractDateFromPath(dir), ExtractCustomerName(dir).proper>>, Hyphen)
         \o CadenceCallSummaryMd
    ELSE ExtractCustomerName(dir).proper \o CadenceCallSummaryMd

\* C12: GenerateOutputFilename returns <date>-<customerName>-cadence-call-summary.md
\* when the path yields a date and <customerName>-cadence-call-summary.md, with
\* no UNDATED placeholder, when it does not; a successful SaveSummary writes the
\* file of exactly that name inside the meeting directory, and nothing else.
C12_Original ==
    /\ ret.op = "GenerateOutputFilename" =>
           /\ ret.filename = NamedForDirectory(meetingDir)
           /\ ExtractDateFromPath(meetingDir) = <<>> => ~Contains(ret.filename, Undated)
    /\ (ret.op = "SaveSummary" /\ ret.err = NilErr) =>
           /\ ret.path = meetingDir \o Slash \o GenerateOutputFilename(meetingDir)
           /\ ret.path \in DOMAIN fs
           /\ ChangedPaths(ret.before, fs) \subseteq {ret.path}

\* C12 holds for every meeting directory that has a named parent directory
C12_BelowNamedParent ==
    (Dir(meetingDir) # Slash) => C12_Original


\* the content of the file SaveSummary has just written
WrittenContent == fs[ret.path]

C13_AppendedWhenMissing ==
    (ret.op = "SaveSummary" /\ ret.err = NilErr) =>
        /\ HasSuffix(WrittenContent, NL)
        /\ WrittenContent = IF HasSuffix(ret.content, NL)
                            THEN ret.content
                            ELSE ret.content \o NL


\* ------------------------------------------------------------------------
\* SpecRun: one run of the root command (runMeetSum) from the validation
\* of the meeting directory on
\* ------------------------------------------------------------------------

\* the most files a meeting directory holds when a run starts
MaxRunFiles == 2

InitRun ==
    /\ meetingDir \in RunDirs
    /\ transcriptPath = <<>>
    /\ cfgTranscript = TranscriptTxt
    /\ \E names \in SUBSET RunFileNames(meetingDir), withInstructions \in BOOLEAN :
           /\ Cardinality(names) <= MaxRunFiles
           /\ fs = DiskOf(meetingDir, names, withInstructions)
    /\ AIEnds(aiOutput, aiStderr, aiErr)
    /\ (aiStderr # <<>>) = (aiErr = ExitStatus1)
    /\ ret = NoRet
    /\ pc = "validate"
    /\ denied \in SUBSET {"WriteFile", "Rename"}
    /\ traceMode \in BOOLEAN
    /\ logger = "set"
    /\ logRecords = <<>>
    /\ cwd = OriginalDir
    /\ summary = <<>>
    /\ generated = NotReturned
    /\ model = NewSpinnerModel
    /\ calls = <<>>
    /\ userName \in Users
    /\ prompt = <<>>
    /\ outcome = Running

Returned(err) == [kind |-> "returned", err |-> err]

\* the run panicked: the process ends with a runtime error
Panicked == [kind |-> "panic"]

EmptySummaryErr == [msg |-> "empty summary generated"]

ProgramErr == [msg |-> "tea: program failed"]

\* a run whose deferred call is never made
DeferredChdir_NotRun(current) == current

\* defer os.Chdir(originalDir): the working directory the process is left
\* in when runMeetSum is left, by a return or by a panic
DeferredChdir(current) == OriginalDir

\* processor.ValidateRequiredFiles and the return on its error
RunValidateRequiredFiles ==
    /\ pc = "validate"
    /\ \E r \in {ValidateRequiredFiles(meetingDir, cfgTranscript, transcriptPath, fs)} :
           /\ transcriptPath' = r.transcriptPath
           /\ ret' = [op |-> "ValidateRequiredFiles", err |-> r.err]
           /\ calls' = Append(calls, "ValidateRequiredFiles")
           /\ IF r.err # NilErr
              THEN outcome' = Returned(r.err) /\ pc' = "done"
              ELSE outcome' = outcome /\ pc' = "chdir"
    /\ UNCHANGED <<meetingDir, cfgTranscript, fs, aiOutput, denied, aiStderr, aiErr,
                   traceMode, logger, logRecords, cwd, summary, generated, model,
                   userName, prompt>>

\* os.Getwd, the deferred os.Chdir(originalDir), os.Chdir(meetingDir)
RunChdir ==
    /\ pc = "chdir"
    /\ cwd' = meetingDir
    /\ pc' = IF traceMode THEN "trace" ELSE "spinner"
    /\ UNCHANGED <<meetingDir, transcriptPath, cfgTranscript, fs, aiOutput, ret, denied,
                   aiStderr, aiErr, traceMode, logger, logRecords, summary, generated,
                   model, calls, userName, prompt, outcome>>

\* trace mode: processor.GenerateSummary called directly, and the return
\* on its error
RunGenerateSummaryTrace ==
    /\ pc = "trace"
    /\ \E g \in {GenerateSummary(meetingDir, transcriptPath, fs, userName, logger,
                                aiOutput, aiStderr, aiErr)} :
           /\ ret' = [op |-> "GenerateSummary", result |-> g.result, err |-> g.err]
           /\ generated' = [state |-> "returned", result |-> g.result, err |-> g.err]
           /\ prompt' = g.prompt
           /\ logRecords' = logRecords \o g.logged
           /\ calls' = Append(calls, "GenerateSummary")
           /\ IF g.err # NilErr
              THEN /\ outcome' = Returned(g.err)
                   /\ cwd' = DeferredChdir(cwd)
                   /\ pc' = "done"
                   /\ summary' = g.result
              ELSE /\ outcome' = outcome
                   /\ cwd' = cwd
                   /\ pc' = "save"
                   /\ summary' = g.result
    /\ UNCHANGED <<meetingDir, transcriptPath, cfgTranscript, fs, aiOutput, denied,
                   aiStderr, aiErr, traceMode, logger, model, userName>>

\* spinner mode: the goroutine of RunWithSpinner runs GenerateSummary
WorkerGenerateSummary ==
    /\ pc = "spinner"
    /\ generated = NotReturned
    /\ \E g \in {GenerateSummary(meetingDir, transcriptPath, fs, userName, logger,
                                aiOutput, aiStderr, aiErr)} :
           /\ ret' = [op |-> "GenerateSummary", result |-> g.result, err |-> g.err]
           /\ generated' = [state |-> "returned", result |-> g.result, err |-> g.err]
           /\ prompt' = g.prompt
           /\ logRecords' = logRecords \o g.logged
           /\ calls' = Append(calls, "GenerateSummary")
    /\ UNCHANGED <<meetingDir, transcriptPath, cfgTranscript, fs, aiOutput, pc, denied,
                   aiStderr, aiErr, traceMode, logger, cwd, summary, model, userName,
                   outcome>>

\* SpinnerModel.Update on the SpinnerFinishedMsg the goroutine sent
SpinnerFinished ==
    /\ pc = "spinner"
    /\ generated # NotReturned
    /\ ~model.done
    /\ model' = [done |-> TRUE, quit |-> TRUE,
                 result |-> [set |-> TRUE, value |-> generated.result],
                 err |-> generated.err]
    /\ UNCHANGED <<meetingDir, transcriptPath, cfgTranscript, fs, aiOutput, ret, pc,
                   denied, aiStderr, aiErr, traceMode, logger, logRecords, cwd, summary,
                   generated, calls, userName, prompt, outcome>>

\* SpinnerModel.Update on the key press ctrl+c
SpinnerCtrlC ==
    /\ pc = "spinner"
    /\ ~model.quit
    /\ model' = [model EXCEPT !.quit = TRUE]
    /\ UNCHANGED <<meetingDir, transcriptPath, cfgTranscript, fs, aiOutput, ret, pc,
                   denied, aiStderr, aiErr, traceMode, logger, logRecords, cwd, summary,
                   generated, calls, userName, prompt, outcome>>

\* RunWithSpinner returns the error of tea.Program.Run, and runMeetSum
\* returns it
SpinnerProgramFails ==
    /\ pc = "spinner"
    /\ ~model.quit
    /\ outcome' = Returned(ProgramErr)
    /\ cwd' = DeferredChdir(cwd)
    /\ pc' = "done"
    /\ UNCHANGED <<meetingDir, transcriptPath, cfgTranscript, fs, aiOutput, ret, denied,
                   aiStderr, aiErr, traceMode, logger, logRecords, summary, generated,
                   model, calls, userName, prompt>>

\* RunWithSpinner returns the final model's result and error; runMeetSum
\* returns the error, or asserts the result to be a string
RunWithSpinnerReturns ==
    /\ pc = "spinner"
    /\ model.quit
    /\ IF model.err # NilErr
       THEN outcome' = Returned(model.err) /\ cwd' = DeferredChdir(cwd) /\ pc' = "done"
                                           /\ summary' = summary
       ELSE IF ~model.result.set
       THEN outcome' = Panicked /\ cwd' = DeferredChdir(cwd) /\ pc' = "done"
                                /\ summary' = summary
       ELSE outcome' = outcome /\ cwd' = cwd /\ pc' = "save"
                               /\ summary' = model.result.value
    /\ UNCHANGED <<meetingDir, transcriptPath, cfgTranscript, fs, aiOutput, ret, denied,
                   aiStderr, aiErr, traceMode, logger, logRecords, generated, model,
                   calls, userName, prompt>>

\* processor.SaveSummary(summary) and the return on its error
RunSaveSummary ==
    /\ pc = "save"
    /\ \E r \in {SaveSummary(meetingDir, summary, fs, denied)} :
           /\ fs' = r.disk
           /\ ret' = [op |-> "SaveSummary", path |-> r.path, err |-> r.err,
                      content |-> summary, before |-> fs]
           /\ calls' = Append(calls, "SaveSummary")
           /\ IF r.err # NilErr
              THEN outcome' = Returned(r.err) /\ cwd' = DeferredChdir(cwd) /\ pc' = "done"
              ELSE outcome' = outcome /\ cwd' = cwd /\ pc' = "check"
    /\ UNCHANGED <<meetingDir, transcriptPath, cfgTranscript, aiOutput, denied, aiStderr,
                   aiErr, traceMode, logger, logRecords, summary, generated, model,
                   userName, prompt>>

\* a run that goes on to the rename whatever the summary is
RunCheckSummary_Skipped ==
    /\ pc = "check"
    /\ pc' = "rename"
    /\ UNCHANGED <<meetingDir, transcriptPath, cfgTranscript, fs, aiOutput, ret, denied,
                   aiStderr, aiErr, traceMode, logger, logRecords, cwd, summary, generated,
                   model, calls, userName, prompt, outcome>>

\* the check of the summary against the empty string
RunCheckSummary ==
    /\ pc = "check"
    /\ IF summary = <<>>
       THEN outcome' = Returned(EmptySummaryErr) /\ cwd' = DeferredChdir(cwd) /\ pc' = "done"
       ELSE outcome' = outcome /\ cwd' = cwd /\ pc' = "rename"
    /\ UNCHANGED <<meetingDir, transcriptPath, cfgTranscript, fs, aiOutput, ret, denied,
                   aiStderr, aiErr, traceMode, logger, logRecords, summary, generated,
                   model, calls, userName, prompt>>

\* processor.RenameTranscriptFile, whose error is printed as a warning,
\* and the return of nil
RunRenameTranscriptFile ==
    /\ pc = "rename"
    /\ \E r \in {RenameTranscriptFile(meetingDir, transcriptPath, fs, denied)} :
           /\ transcriptPath' = r.transcriptPath
           /\ fs' = r.disk
           /\ ret' = [op |-> "RenameTranscriptFile", name |-> r.name, err |-> r.err,
                      from |-> transcriptPath, before |-> fs]
    /\ calls' = Append(calls, "RenameTranscriptFile")
    /\ outcome' = Returned(NilErr)
    /\ cwd' = DeferredChdir(cwd)
    /\ pc' = "done"
    /\ UNCHANGED <<meetingDir, cfgTranscript, aiOutput, denied, aiStderr, aiErr,
                   traceMode, logger, logRecords, summary, generated, model, userName,
                   prompt>>

NextRun ==
    \/ RunValidateRequiredFiles
    \/ RunChdir
    \/ RunGenerateSummaryTrace
    \/ WorkerGenerateSummary
    \/ SpinnerFinished
    \/ SpinnerCtrlC
    \/ SpinnerProgramFails
    \/ RunWithSpinnerReturns
    \/ RunSaveSummary
    \/ RunCheckSummary
    \/ RunRenameTranscriptFile

SpecRun == InitRun /\ [][NextRun]_vars


\* ------------------------------------------------------------------------
\* Claims about a run
\* ------------------------------------------------------------------------

SummaryPath == PathJoin(meetingDir, GenerateOutputFilename(meetingDir))

\* the summary file holds something written in this run: a file that was
\* there before the run holds the path it was created under
SummaryWritten == SummaryPath \in DOMAIN fs /\ fs[SummaryPath] # SummaryPath

\* the run is over and the summary GenerateSummary returned reached it:
\* trace mode, or the spinner delivered the completion message
RunEndedWithResult == pc = "done" /\ generated # NotReturned /\ (traceMode \/ model.done)

\* C3 as stated: in every run where the AI command exits without error
\* and the sanitized summary is the empty string, the run ends in the
\* EmptySummary failure and no summary file is created or overwritten
\* (stated for runs in which the operating system refuses no write).
C3_Original ==
    (/\ RunEndedWithResult
     /\ "WriteFile" \notin denied
     /\ aiErr = NilErr
     /\ generated.err = NilErr
     /\ generated.result = <<>>)
        => /\ outcome = Returned(EmptySummaryErr)
           /\ ~SummaryWritten

\* the run failed: it returned an error, or it panicked
RunFailed ==
    \/ outcome.kind = "returned" /\ outcome.err # NilErr
    \/ outcome.kind = "panic"

\* C4: in every run where the AI command exits non-zero or cannot be
\* started, in trace mode and in spinner mode, GenerateSummary returns an
\* error, the run fails, SaveSummary and RenameTranscriptFile are never
\* executed, no summary file is written and the transcript keeps its path.
C4_AIFailureWritesNothing ==
    AIFailed =>
        /\ generated # NotReturned
        /\ generated.err # NilErr
        /\ pc = "done" => RunFailed
        /\ pc \notin {"save", "check", "rename"}
        /\ "SaveSummary" \notin Range(calls)
        /\ "RenameTranscriptFile" \notin Range(calls)
        /\ ~SummaryWritten
        /\ transcriptPath \in DOMAIN fs /\ fs[transcriptPath] = transcriptPath

\* C4 witness: spinner mode, the AI command exited with status 1, the
\* spinner delivered GenerateSummary's error and the run returned it
C4_Witness ==
    /\ pc = "done"
    /\ ~traceMode
    /\ aiErr = ExitStatus1
    /\ model.done
    /\ outcome = Returned(GenerateFailedErr(ExitStatus1))
    /\ calls = <<"ValidateRequiredFiles", "GenerateSummary">>

\* C4 in trace mode: the run returned the error of GenerateSummary
C4_TraceWitness ==
    /\ pc = "done"
    /\ traceMode
    /\ aiErr = NotFoundInPath
    /\ outcome = Returned(GenerateFailedErr(NotFoundInPath))

\* the error kinds as they occur in a run that is over
ValidationFailed == ret.op = "ValidateRequiredFiles" /\ ret.err # NilErr

SummaryWasEmpty ==
    /\ "SaveSummary" \in Range(calls)
    /\ "RenameTranscriptFile" \notin Range(calls)
    /\ ret.op = "SaveSummary" /\ ret.err = NilErr
    /\ summary = <<>>

RenameErrored == ret.op = "RenameTranscriptFile" /\ ret.err # NilErr

\* C19 as stated: whenever TranscriptNotFound, InstructionsNotFound,
\* AIInvocationFailed, EmptySummary, RenameConflict or RenameFailed occurs in
\* a run, the run ends in failure.
C19_Original ==
    (pc = "done" /\ (ValidationFailed \/ AIFailed \/ SummaryWasEmpty \/ RenameErrored))
        => RunFailed

\* C19 holds for the error kinds that occur before the rename
C19_TerminalBeforeRename ==
    (pc = "done" /\ (ValidationFailed \/ AIFailed \/ SummaryWasEmpty)) => RunFailed

\* the rename errors that reach the end of a run
C19_ConflictReached ==
    /\ pc = "done"
    /\ RenameErrored
    /\ ret.err = RenameConflictErr(DateString(2026, 2, 4) \o DashTranscriptTxt)

\* the run went into the meeting directory: GenerateSummary is only called
\* after the change of directory
ChangedDirectory == "GenerateSummary" \in Range(calls) \/ pc \in {"trace", "spinner"}

\* C20: on every way out of the run that follows the change into the
\* meeting directory (AI failure, save failure, empty summary, rename
\* failure, success, and the failed type assertion), the working directory
\* is the original directory again once the run is over; until then it is
\* the meeting directory.
C20_WorkingDirectoryRestored ==
    /\ pc = "done" => cwd = OriginalDir
    /\ (ChangedDirectory /\ pc # "done") => cwd = meetingDir

\* a run that failed at the rename, after the whole work in the meeting
\* directory
C20_Witness ==
    /\ pc = "done"
    /\ ChangedDirectory
    /\ RenameErrored
    /\ cwd = OriginalDir

\* a run that failed in the AI command
C20_AIFailureWitness ==
    /\ pc = "done"
    /\ ChangedDirectory
    /\ AIFailed
    /\ cwd = OriginalDir

\* spinner mode, and RunWithSpinner has returned from a program that ran
\* to its end
PastSpinner ==
    /\ ~traceMode
    /\ pc \in {"save", "check", "rename", "done"}
    /\ ~ValidationFailed
    /\ outcome # Returned(ProgramErr)

\* what RunWithSpinner returned is what the worker produced
WorkerResultDelivered ==
    /\ generated # NotReturned
    /\ model.result = [set |-> TRUE, value |-> generated.result]
    /\ model.err = generated.err

\* C27 as stated: however the spinner's events (key presses, Ctrl+C among
\* them, and the completion message) interleave with the worker,
\* RunWithSpinner returns the result and the error the worker produced, and
\* the run goes on with them.
C27_Original ==
    PastSpinner =>
        /\ WorkerResultDelivered
        /\ outcome # Panicked
        /\ pc \in {"save", "check", "rename"} => summary = generated.result

\* C27 holds for the runs in which the completion message was handled
C27_AfterCompletionMessage ==
    (PastSpinner /\ model.done) =>
        /\ WorkerResultDelivered
        /\ outcome # Panicked
        /\ pc \in {"save", "check", "rename"} => summary = generated.result

\* Ctrl+C after the worker produced a summary and before the completion
\* message was handled
C27_InterruptedAfterWorker ==
    /\ PastSpinner
    /\ generated # NotReturned /\ generated.err = NilErr /\ generated.result # <<>>
    /\ ~model.done
    /\ outcome = Panicked

\* RenameTranscriptFile was invoked in the run
RenameInvoked == "RenameTranscriptFile" \in Range(calls)

\* every file but the summary is under the name and with the content it had
\* before the run
TranscriptsKeepTheirNames ==
    /\ \A f \in DOMAIN fs \ {SummaryPath} : fs[f] = f
    /\ transcriptPath # <<>> => transcriptPath \in DOMAIN fs

\* C29: in every run RenameTranscriptFile is invoked only after the AI
\* command ended without error and GenerateSummary returned a summary, the
\* summary is not empty and SaveSummary has written it to the summary file;
\* in a run that fails, every transcript keeps its name.
C29_ArchivingFollowsSummary ==
    /\ RenameInvoked =>
           /\ aiErr = NilErr
           /\ generated # NotReturned /\ generated.err = NilErr
           /\ summary # <<>> /\ summary = generated.result
           /\ "SaveSummary" \in Range(calls)
           /\ SummaryPath \in DOMAIN fs /\ fs[SummaryPath] = summary \o NL
    /\ (pc = "done" /\ RunFailed) => (~RenameInvoked /\ TranscriptsKeepTheirNames)

\* a run that wrote its summary and then renamed the transcript
C29_Witness ==
    /\ pc = "done"
    /\ RenameInvoked
    /\ ret.op = "RenameTranscriptFile" /\ ret.name = DatedName(2026, 2, 4)
    /\ fs[SummaryPath] = <<"Body">> \o NL
    /\ transcriptPath = meetingDir \o Slash \o DatedName(2026, 2, 4)

\* a run that failed on the empty summary, the transcript under its name
C29_FailedWitness ==
    /\ pc = "done"
    /\ outcome = Returned(EmptySummaryErr)
    /\ ~RenameInvoked
    /\ transcriptPath = meetingDir \o Slash \o TranscriptTxt
    /\ transcriptPath \in DOMAIN fs

=============================================================================
